---- MODULE Spec2Model ----
(***************************************************************************)
(* A model of the gradebook library of src/overunder.py: NamedNode trees,  *)
(* Assignment weights, AssignmentGrade aggregation with its memo cache,    *)
(* and the GradeBook operations that keep one grade tree per student.      *)
(*                                                                         *)
(* Texts are sequences of one-character strings.  Exact rationals          *)
(* (fractions.Fraction) are pairs <<n, d>> in lowest terms with d > 0;      *)
(* Python's None is the empty sequence <<>>.  A local variable of the code *)
(* is the parameter of the operator that models the statements after its   *)
(* assignment.                                                             *)
(***************************************************************************)
EXTENDS Integers, Sequences, FiniteSets, TLC

(***************************************************************************)
(* Exact rational arithmetic (fractions.Fraction).                         *)
(***************************************************************************)
None == <<>>

Abs(x) == IF x < 0 THEN -x ELSE x

RECURSIVE GCD(_, _)
GCD(a, b) == IF b = 0 THEN a ELSE GCD(b, a % b)

Sign(d) == IF d < 0 THEN -1 ELSE 1

Reduce(n, d, g) == <<n \div g, d \div g>>

\* Fraction(n, d) for d # 0
Frac(n, d) == Reduce(Sign(d) * n, Sign(d) * d, GCD(Abs(n), Abs(d)))

FZero == <<0, 1>>
FOne == <<1, 1>>
FAdd(x, y) == Frac(x[1] * y[2] + y[1] * x[2], x[2] * y[2])
FSub(x, y) == Frac(x[1] * y[2] - y[1] * x[2], x[2] * y[2])
FMul(x, y) == Frac(x[1] * y[1], x[2] * y[2])
\* x / y for y # 0 (the callers raise ZeroDivisionError when y = 0)
FDiv(x, y) == Frac(x[1] * y[2], x[2] * y[1])
FLe(x, y) == x[1] * y[2] <= y[1] * x[2]
FLt(x, y) == x[1] * y[2] < y[1] * x[2]

(***************************************************************************)
(* Text helpers: str.strip, str.lstrip('+'), str.lower, str.split('/').    *)
(***************************************************************************)
Digits == {"0", "1", "2", "3", "4", "5", "6", "7", "8", "9"}

DigitVal(c) ==
    CASE c = "0" -> 0 [] c = "1" -> 1 [] c = "2" -> 2 [] c = "3" -> 3
      [] c = "4" -> 4 [] c = "5" -> 5 [] c = "6" -> 6 [] c = "7" -> 7
      [] c = "8" -> 8 [] c = "9" -> 9

Front(s) == SubSeq(s, 1, Len(s) - 1)

RECURSIVE LStrip(_, _)
LStrip(s, c) == IF s # <<>> /\ Head(s) = c THEN LStrip(Tail(s), c) ELSE s

RECURSIVE RStrip(_, _)
RStrip(s, c) == IF s # <<>> /\ s[Len(s)] = c THEN RStrip(Front(s), c) ELSE s

Strip(s) == RStrip(LStrip(s, " "), " ")

LowerChar(c) ==
    CASE c = "N" -> "n" [] c = "O" -> "o" [] c = "E" -> "e"
      [] c = "A" -> "a" [] c = "B" -> "b" [] c = "C" -> "c"
      [] c = "D" -> "d" [] c = "F" -> "f" [] OTHER -> c

Lower(s) == [i \in 1..Len(s) |-> LowerChar(s[i])]

Positions(s, c) == {i \in 1..Len(s) : s[i] = c}

\* the least element of a non-empty set of numbers
FirstOf(S) == CHOOSE i \in S : \A j \in S : i <= j

\* string.split(c) for a string with one c, about its position p
SplitAt(s, p) == <<SubSeq(s, 1, p - 1), SubSeq(s, p + 1, Len(s))>>
Split(s, c) == SplitAt(s, FirstOf(Positions(s, c)))

RECURSIVE Join(_)
\* ''.join(chars)
Join(chars) == IF chars = <<>> THEN "" ELSE Head(chars) \o Join(Tail(chars))

\* s.split(c)[0]
BeforeFirst(s, c) ==
    IF Positions(s, c) = {} THEN s ELSE SubSeq(s, 1, FirstOf(Positions(s, c)) - 1)

RECURSIVE Pow10(_)
Pow10(k) == IF k = 0 THEN 1 ELSE 10 * Pow10(k - 1)

RECURSIVE DigitsVal(_)
DigitsVal(s) == IF s = <<>> THEN 0 ELSE 10 * DigitsVal(Front(s)) + DigitVal(s[Len(s)])

AllDigits(s) == \A i \in 1..Len(s) : s[i] \in Digits

\* [0-9]* before the dot and [0-9]+ after it
DigitsAround(parts) == AllDigits(parts[1]) /\ parts[2] # <<>> /\ AllDigits(parts[2])

\* re.fullmatch of ([0-9]*)(\.[0-9]+)?
MatchNumber(s) ==
    \/ Positions(s, ".") = {} /\ AllDigits(s)
    \/ Cardinality(Positions(s, ".")) = 1 /\ DigitsAround(Split(s, "."))

\* Fraction of a decimal text split about its dot
Decimal(parts) ==
    Frac(DigitsVal(parts[1]) * Pow10(Len(parts[2])) + DigitsVal(parts[2]),
         Pow10(Len(parts[2])))

\* Fraction(string) for a string MatchNumber accepts: None stands for the
\* ValueError Fraction('') raises.
FractionOf(s) ==
    IF s = <<>> THEN None
    ELSE IF Positions(s, ".") = {} THEN Frac(DigitsVal(s), 1)
    ELSE Decimal(Split(s, "."))

PERCENT_REGEX(s) == s # <<>> /\ s[Len(s)] = "%" /\ MatchNumber(Front(s))

BothNumbers(parts) == MatchNumber(parts[1]) /\ MatchNumber(parts[2])

FRACTION_REGEX(s) == Cardinality(Positions(s, "/")) = 1 /\ BothNumbers(Split(s, "/"))

SCORE_REGEX(s) == MatchNumber(s)

LetterHeads == {"A", "B", "C", "D", "E", "F"}

\* [A-F][+-]?
MatchLetter(s) ==
    /\ Len(s) \in {1, 2}
    /\ s[1] \in LetterHeads
    /\ Len(s) = 2 => s[2] \in {"+", "-"}

BothLetters(parts) == MatchLetter(parts[1]) /\ MatchLetter(parts[2])

\* re.fullmatch of [A-F][+-]?(/[A-F][+-]?)?
LETTER_REGEX(s) ==
    \/ MatchLetter(s)
    \/ Cardinality(Positions(s, "/")) = 1 /\ BothLetters(Split(s, "/"))

\* AssignmentGrade.LETTER_FRACTIONS; None for a key the table lacks.
LETTER_FRACTIONS(s) ==
    CASE s = <<"F">> -> Frac(180, 300)
      [] s = <<"D">> -> Frac(195, 300)
      [] s = <<"D", "+">> -> Frac(210, 300)
      [] s = <<"C", "-">> -> Frac(220, 300)
      [] s = <<"C">> -> Frac(230, 300)
      [] s = <<"C", "+">> -> Frac(240, 300)
      [] s = <<"B", "-">> -> Frac(250, 300)
      [] s = <<"B">> -> Frac(260, 300)
      [] s = <<"B", "+">> -> Frac(270, 300)
      [] s = <<"A", "-">> -> Frac(285, 300)
      [] s = <<"A">> -> Frac(300, 300)
      [] OTHER -> None

\* the keys of LETTER_FRACTIONS in the order the dict holds them
Letters ==
    <<<<"F">>, <<"D">>, <<"D", "+">>, <<"C", "-">>, <<"C">>, <<"C", "+">>,
      <<"B", "-">>, <<"B">>, <<"B", "+">>, <<"A", "-">>, <<"A">>>>

RECURSIVE FirstAbove(_, _)
\* the loop of letter_grade from the i-th item on: the first letter whose
\* boundary is above the fraction, 'A' when the items are exhausted
FirstAbove(fraction, i) ==
    IF i > Len(Letters) THEN <<"A">>
    ELSE IF FLt(fraction, LETTER_FRACTIONS(Letters[i])) THEN Letters[i]
    ELSE FirstAbove(fraction, i + 1)

\* AssignmentGrade.letter_grade
letter_grade(fraction) == FirstAbove(fraction, 1)

(***************************************************************************)
(* parse_fraction.  The result is [err, val, type]: err is "" or the name  *)
(* of the exception raised, val the Fraction or None.  has_scale says      *)
(* whether a grade_scale was given.                                        *)
(***************************************************************************)
Parsed(v, t) == [err |-> "", val |-> v, type |-> t]
Raised(e) == [err |-> e, val |-> None, type |-> ""]

\* Fraction(string[:-1]) / Fraction(100)
PercentOf(fraction) ==
    IF fraction = None THEN Raised("ValueError")
    ELSE Parsed(FDiv(fraction, Frac(100, 1)), "percent")

OrDefault(s, default) == IF s = <<>> THEN default ELSE s

\* Fraction(numerator) / Fraction(denominator)
Quotient(numerator, denominator) ==
    IF denominator = FZero THEN Raised("ZeroDivisionError")
    ELSE Parsed(FDiv(numerator, denominator), "fraction")

FractionBranch(parts) ==
    Quotient(FractionOf(OrDefault(parts[1], <<"0">>)),
             FractionOf(OrDefault(parts[2], <<"1">>)))

\* Fraction(string), over full_points when they are given
ScoreOf(fraction, full_points) ==
    IF fraction = None THEN Raised("ValueError")
    ELSE IF full_points = None THEN Parsed(fraction, "points")
    ELSE IF full_points = FZero THEN Raised("ZeroDivisionError")
    ELSE Parsed(FDiv(fraction, full_points), "points")

\* (grade_scale[lower] + grade_scale[upper]) / 2
LetterMean(lower, upper) ==
    IF lower = None \/ upper = None THEN Raised("KeyError")
    ELSE Parsed(FDiv(FAdd(lower, upper), Frac(2, 1)), "letter")

LetterPair(parts) == LetterMean(LETTER_FRACTIONS(parts[1]), LETTER_FRACTIONS(parts[2]))

\* grade_scale[string]
LetterOf(fraction) ==
    IF fraction = None THEN Raised("KeyError") ELSE Parsed(fraction, "letter")

\* The if/elif chain over the four patterns
ParseBody(s, full_points, has_scale) ==
    IF PERCENT_REGEX(s) THEN PercentOf(FractionOf(Front(s)))
    ELSE IF FRACTION_REGEX(s) THEN FractionBranch(Split(s, "/"))
    ELSE IF SCORE_REGEX(s) THEN ScoreOf(FractionOf(s), full_points)
    ELSE IF LETTER_REGEX(s) THEN
        IF ~has_scale THEN Raised("ValueError")
        ELSE IF Positions(s, "/") # {} THEN LetterPair(Split(s, "/"))
        ELSE LetterOf(LETTER_FRACTIONS(s))
    ELSE Raised("ValueError")

\* string.startswith('-')
Negative(s) == s # <<>> /\ Head(s) = "-"

\* the parse returned as it is behind a minus too
Signed_as_parsed(negative, r) == r

\* the final "if negative: return 1 - fraction"
Signed(negative, r) ==
    IF r.err = "" /\ negative THEN Parsed(FSub(FOne, r.val), r.type) ELSE r

\* parse_fraction after string.lstrip('+')
ParseSigned(s, full_points, has_scale) ==
    Signed(Negative(s), ParseBody(IF Negative(s) THEN Tail(s) ELSE s, full_points, has_scale))

parse_fraction(string, full_points, has_scale) ==
    IF Lower(string) = <<"n", "o", "n", "e">> THEN Parsed(None, "none")
    ELSE ParseSigned(LStrip(string, "+"), full_points, has_scale)

(***************************************************************************)
(* NamedNode.  A tree is an arena: a function from node ids to records     *)
(* with the fields name, parent (0 for None), depth and children (the      *)
(* ordered list _children, as a sequence of ids).  A qualified name is the *)
(* list qualified_name.split('__') of its segments.  Lookups return        *)
(* [err, node]; err is "" or the exception raised.                         *)
(***************************************************************************)
Found(n) == [err |-> "", node |-> n]
NotFound(e) == [err |-> e, node |-> 0]

Last(s) == s[Len(s)]

\* the indices of the children of n that carry the name
NamedChildren(t, n, name) ==
    {i \in 1..Len(t[n].children) : t[t[n].children[i]].name = name}

FirstOrNone(S) == IF S = {} THEN 0 ELSE FirstOf(S)

\* NamedNode.index_of: the 1-based index of the first child with the name,
\* 0 for KeyError.
index_of(t, n, name) == FirstOrNone(NamedChildren(t, n, name))

RECURSIVE _get(_, _, _)
\* self._children[index]._get(names[1:])
Descend(t, n, names, index) ==
    IF index = 0 THEN NotFound("KeyError")
    ELSE _get(t, t[n].children[index], Tail(names))

_get(t, n, names) ==
    IF Len(names) = 1 THEN Found(n)
    ELSE Descend(t, n, names, index_of(t, n, names[2]))

\* NamedNode.get, on the tree rooted at r
get(t, r, names) ==
    IF names[1] # t[r].name THEN NotFound("AssertionError")
    ELSE _get(t, r, names)

\* NamedNode.__contains__: [err, val]; only KeyError is caught
__contains__(t, r, names) ==
    IF get(t, r, names).err = "" THEN [err |-> "", val |-> TRUE]
    ELSE IF get(t, r, names).err = "KeyError" THEN [err |-> "", val |-> FALSE]
    ELSE [err |-> get(t, r, names).err, val |-> FALSE]

\* The node an edit (move_node_up, move_node_down, remove_node) addresses:
\* the two assertions, then _get.
Addressed(t, r, names) ==
    IF names[1] # t[r].name \/ Len(names) <= 1 THEN NotFound("AssertionError")
    ELSE _get(t, r, names)

\* The node add_descendant appends to: the two assertions, then the walk of
\* _add_descendant over all but the last segment.
AddParent(t, r, names) ==
    IF names[1] # t[r].name \/ Len(names) <= 1 THEN NotFound("AssertionError")
    ELSE _get(t, r, Front(names))

\* NamedNode.traversal: pre-order, self first
RECURSIVE traversal(_, _)
RECURSIVE TraverseAll(_, _)
traversal(t, n) == <<n>> \o TraverseAll(t, t[n].children)
TraverseAll(t, cs) ==
    IF cs = <<>> THEN <<>> ELSE traversal(t, Head(cs)) \o TraverseAll(t, Tail(cs))

Range(s) == {s[i] : i \in 1..Len(s)}
Reach(t, n) == Range(traversal(t, n))

\* NamedNode.qualified_name, as the list of segments from the root
RECURSIVE qualified_name(_, _)
qualified_name(t, n) ==
    IF t[n].parent = 0 THEN <<t[n].name>>
    ELSE Append(qualified_name(t, t[n].parent), t[n].name)

Swap(s, i, j) == [s EXCEPT ![i] = s[j], ![j] = s[i]]
RemoveAt(s, i) == SubSeq(s, 1, i - 1) \o SubSeq(s, i + 1, Len(s))
Restrict(f, S) == [k \in S |-> f[k]]

\* The result [err, t] of an edit of the children of p
Edited(t, p, children) == [err |-> "", t |-> [t EXCEPT ![p].children = children]]
Refused(t, e) == [err |-> e, t |-> t]

\* move_node_up without its test index > 0: the first child is exchanged
\* with _children[-1], the last one.
move_node_up_unguarded(t, r, names) ==
    LET d == Addressed(t, r, names)
    IN  IF d.err # "" THEN Refused(t, d.err)
        ELSE LET p == t[d.node].parent
                 index == index_of(t, p, Last(names))
                 other == IF index > 1 THEN index - 1 ELSE Len(t[p].children)
             IN  Edited(t, p, Swap(t[p].children, other, index))

\* the exchange with the elder sibling, given the index among p's children
SwapUp(t, p, index) ==
    IF index > 1 THEN Edited(t, p, Swap(t[p].children, index - 1, index))
    ELSE Refused(t, "")

MoveUpFrom(t, names, descendant) ==
    IF descendant.err # "" THEN Refused(t, descendant.err)
    ELSE SwapUp(t, t[descendant.node].parent,
                index_of(t, t[descendant.node].parent, Last(names)))

\* NamedNode.move_node_up: [err, t]
move_node_up(t, r, names) == MoveUpFrom(t, names, Addressed(t, r, names))

\* the exchange with the last sibling instead of the next one
SwapDown_with_last(t, p, index) ==
    IF index < Len(t[p].children)
    THEN Edited(t, p, Swap(t[p].children, index, Len(t[p].children)))
    ELSE Refused(t, "")

\* the exchange with the younger sibling
SwapDown(t, p, index) ==
    IF index < Len(t[p].children) THEN Edited(t, p, Swap(t[p].children, index, index + 1))
    ELSE Refused(t, "")

MoveDownFrom(t, names, descendant) ==
    IF descendant.err # "" THEN Refused(t, descendant.err)
    ELSE SwapDown(t, t[descendant.node].parent,
                  index_of(t, t[descendant.node].parent, Last(names)))

\* NamedNode.move_node_down: [err, t]
move_node_down(t, r, names) == MoveDownFrom(t, names, Addressed(t, r, names))

\* descendant.parent._children.pop(index)
RemoveFrom(t, names, descendant) ==
    IF descendant.err # "" THEN Refused(t, descendant.err)
    ELSE Edited(t, t[descendant.node].parent,
                RemoveAt(t[t[descendant.node].parent].children,
                         index_of(t, t[descendant.node].parent, Last(names))))

\* NamedNode.remove_node: [err, t]; the popped node keeps its _parent
remove_node(t, r, names) == RemoveFrom(t, names, Addressed(t, r, names))

\* The part of NamedNode.add_child before node._propagate(): node n, already
\* in the arena, becomes the last child of p.
\* add_child putting the node in front of the children
Attach_first(t, p, n) ==
    [t EXCEPT ![p].children = <<n>> \o @,
              ![n].parent = p,
              ![n].depth = t[p].depth + 1]

Attach(t, p, n) ==
    [t EXCEPT ![p].children = Append(@, n),
              ![n].parent = p,
              ![n].depth = t[p].depth + 1]

\* self.add_child(node) at the node the walk of _add_descendant ends at
AddedTo(t, n, p) ==
    IF p.err # "" THEN Refused(t, p.err) ELSE [err |-> "", t |-> Attach(t, p.node, n)]

\* NamedNode.add_descendant of the node n of the arena: [err, t]
add_descendant(t, r, names, n) == AddedTo(t, n, AddParent(t, r, names))

\* add_descendant of the node popped, on the tree remove_node left
MovedTo(r, new_names, descendant, removed) ==
    IF removed.err # "" THEN removed
    ELSE add_descendant(removed.t, r, new_names, descendant.node)

\* NamedNode.move_node: [err, t]; remove_node runs first, as the argument
\* of add_descendant
move_node(t, r, old_names, new_names) ==
    MovedTo(r, new_names, Addressed(t, r, old_names), remove_node(t, r, old_names))

(***************************************************************************)
(* Assignment.                                                             *)
(***************************************************************************)
\* _parse_weight_str and the fields __init__ sets, given the parse
WeightParsed(name, weight_str, extra_credit, r) ==
    IF r.err # "" THEN [err |-> r.err, node |-> <<>>]
    ELSE IF r.val = None THEN [err |-> "ValueError", node |-> <<>>]
    ELSE [err |-> "",
          node |-> [name |-> name, parent |-> 0, depth |-> 0, children |-> <<>>,
                    weight_str |-> weight_str, extra_credit |-> extra_credit,
                    weight |-> r.val, weight_type |-> r.type]]

\* Assignment.__init__ with _parse_weight_str: [err, node]
Assignment(name, weight_str, extra_credit) ==
    WeightParsed(name, weight_str, extra_credit, parse_fraction(weight_str, None, FALSE))

\* The sum of the children's weights with the extra-credit children left out
RECURSIVE SumWeights_non_extra_credit(_, _)
SumWeights_non_extra_credit(a, cs) ==
    IF cs = <<>> THEN FZero
    ELSE IF a[Head(cs)].extra_credit THEN SumWeights_non_extra_credit(a, Tail(cs))
    ELSE FAdd(a[Head(cs)].weight, SumWeights_non_extra_credit(a, Tail(cs)))

\* sum(child._weight for child in self.parent.children)
RECURSIVE SumWeights(_, _)
SumWeights(a, cs) ==
    IF cs = <<>> THEN FZero ELSE FAdd(a[Head(cs)].weight, SumWeights(a, Tail(cs)))

\* re.fullmatch('[0-9.]*', s)
DigitsOrDots(s) == \A i \in 1..Len(s) : s[i] \in Digits \cup {"."}

\* percent_weight without the division by the siblings' total
percent_weight_raw(a, n) ==
    IF a[n].parent = 0 THEN [err |-> "", val |-> FOne]
    ELSE [err |-> "", val |-> a[n].weight]

\* self._weight / sum(...)
ShareOf(weight, total) ==
    IF total = FZero THEN [err |-> "ZeroDivisionError", val |-> None]
    ELSE [err |-> "", val |-> FDiv(weight, total)]

\* Assignment.percent_weight: [err, val]
percent_weight(a, n) ==
    IF a[n].parent = 0 THEN [err |-> "", val |-> FOne]
    ELSE IF (a[n].weight_str # <<>> /\ Last(a[n].weight_str) = "%")
             \/ Positions(a[n].weight_str, "/") # {}
    THEN [err |-> "", val |-> a[n].weight]
    ELSE IF DigitsOrDots(a[n].weight_str)
    THEN ShareOf(a[n].weight, SumWeights(a, a[a[n].parent].children))
    ELSE [err |-> "ValueError", val |-> None]

(***************************************************************************)
(* AssignmentGrade.  A grade node adds to the NamedNode fields: assignment *)
(* (the id of the Assignment it is bound to), grade_str, has_grade,        *)
(* percent_grade and cache (_weight_grade_cache).  The cache has one entry *)
(* per default_grade key 0 / None / 1, here "min" / "partial" / "max":     *)
(* <<>> when the key is absent, <<v>> when it holds v.                     *)
(***************************************************************************)
Policies == {"min", "partial", "max"}

EmptyCache == [min |-> <<>>, partial |-> <<>>, max |-> <<>>]

\* AssignmentGrade._parse_grade_str
_parse_grade_str(a, node, grade_str) ==
    parse_fraction(grade_str, a[node.assignment].weight, TRUE)

\* the fields __init__ assigns before its call of set_grade
NewGrade(a, n, grade_str) ==
    [name |-> a[n].name, parent |-> 0, depth |-> 0, children |-> <<>>,
     assignment |-> n, grade_str |-> grade_str,
     has_grade |-> FALSE, percent_grade |-> None, cache |-> EmptyCache]

\* _propagate of a node with neither parent nor children, given the parse
\* of its stripped text
AloneParsed(node, grade_str, r) ==
    IF r.err # "" THEN [err |-> r.err, node |-> node]
    ELSE [err |-> "",
          node |-> [node EXCEPT !.grade_str = grade_str,
                                !.percent_grade = r.val,
                                !.has_grade = (r.val # None)]]

\* the call self.set_grade(grade_str) that ends __init__
InitialGrade(a, node, grade_str) ==
    IF Strip(grade_str) = grade_str THEN [err |-> "", node |-> node]
    ELSE AloneParsed(node, Strip(grade_str), _parse_grade_str(a, node, Strip(grade_str)))

\* AssignmentGrade.__init__: [err, node].  Its call of set_grade returns at
\* once unless the text has surrounding blanks; then the new node, which has
\* neither parent nor children yet, is propagated alone.
AssignmentGrade(a, n, grade_str) == InitialGrade(a, NewGrade(a, n, grade_str), grade_str)

\* AssignmentGrade._clear_cache
_clear_cache(node) ==
    [node EXCEPT !.has_grade = FALSE, !.percent_grade = None, !.cache = EmptyCache]

AnyHasGrade(g, cs) == \E i \in 1..Len(cs) : g[cs[i]].has_grade

RECURSIVE _propagate(_, _, _)
\* if self.parent is not None: self.parent._propagate()
ToParent(g, a, n) ==
    IF g[n].parent = 0 THEN [err |-> "", g |-> g] ELSE _propagate(g, a, g[n].parent)

\* the leaf branch, given the parse of the grade text
LeafParsed(g, a, n, r) ==
    IF r.err # "" THEN [err |-> r.err, g |-> g]
    ELSE ToParent([g EXCEPT ![n].percent_grade = r.val,
                            ![n].has_grade = (r.val # None)], a, n)

\* _propagate after self._clear_cache()
AfterClear(g, a, n) ==
    IF g[n].children = <<>>
    THEN LeafParsed(g, a, n, _parse_grade_str(a, g[n], g[n].grade_str))
    ELSE ToParent([g EXCEPT ![n].has_grade = AnyHasGrade(g, g[n].children)], a, n)

\* AssignmentGrade._propagate: [err, g].  A parse error leaves the node
\* cleared and its ancestors untouched.
_propagate(g, a, n) == AfterClear([g EXCEPT ![n] = _clear_cache(@)], a, n)

\* set_grade without its early return on an unchanged text
set_grade_always(g, a, n, text) ==
    _propagate([g EXCEPT ![n].grade_str = Strip(text)], a, n)

\* AssignmentGrade.set_grade: [err, g]
set_grade(g, a, n, text) ==
    IF g[n].grade_str = Strip(text) THEN [err |-> "", g |-> g]
    ELSE _propagate([g EXCEPT ![n].grade_str = Strip(text)], a, n)

\* The default_grade of a policy: 0, None, 1
DefaultGrade(pol) ==
    CASE pol = "min" -> FZero [] pol = "partial" -> None [] pol = "max" -> FOne

RECURSIVE _weighted_grade(_, _, _, _)
RECURSIVE SumChildren(_, _, _, _, _, _, _)

\* self._weight_grade_cache[default_grade] = result; return result
Cached(g, n, pol, result) ==
    [err |-> "", val |-> result, g |-> [g EXCEPT ![n].cache[pol] = <<result>>]]

\* the result of an internal node from the totals of its loop
TotalsRatio(total_grade, total_weight) ==
    IF total_weight = FZero THEN FZero ELSE FDiv(total_grade, total_weight)

Summed(n, pol, r) ==
    IF r.err # "" THEN [err |-> r.err, val |-> None, g |-> r.g]
    ELSE Cached(r.g, n, pol, TotalsRatio(r.total_grade, r.total_weight))

\* the result of a leaf
LeafGrade(node, pol) ==
    IF node.has_grade THEN node.percent_grade
    ELSE IF pol = "partial" THEN FZero
    ELSE DefaultGrade(pol)

\* AssignmentGrade._weighted_grade(default_grade): [err, val, g], where g
\* holds the cache entries the call wrote before returning or raising.
_weighted_grade(g, a, n, pol) ==
    IF g[n].cache[pol] # <<>> THEN [err |-> "", val |-> g[n].cache[pol][1], g |-> g]
    ELSE IF g[n].children # <<>> THEN Summed(n, pol, SumChildren(g, a, n, pol, 1, FZero, FZero))
    ELSE Cached(g, n, pol, LeafGrade(g[n], pol))

\* the loop left by an exception
Stopped(e, g, total_grade, total_weight) ==
    [err |-> e, g |-> g, total_grade |-> total_grade, total_weight |-> total_weight]

\* total_grade += percent_weight * r; total_weight += percent_weight unless
\* the child is extra credit; then the next child
ChildGraded(a, n, pol, i, total_grade, total_weight, extra_credit, w, r) ==
    IF r.err # "" THEN Stopped(r.err, r.g, total_grade, total_weight)
    ELSE IF r.val = None THEN Stopped("TypeError", r.g, total_grade, total_weight)
    ELSE SumChildren(r.g, a, n, pol, i + 1,
                     FAdd(total_grade, FMul(w.val, r.val)),
                     IF extra_credit THEN total_weight ELSE FAdd(total_weight, w.val))

\* child.percent_weight * child._weighted_grade(default_grade)
ChildWeighed(g, a, n, pol, i, total_grade, total_weight, child, w) ==
    IF w.err # "" THEN Stopped(w.err, g, total_grade, total_weight)
    ELSE ChildGraded(a, n, pol, i, total_grade, total_weight,
                     a[g[child].assignment].extra_credit, w,
                     _weighted_grade(g, a, child, pol))

\* The loop of _weighted_grade over the children from index i on
SumChildren(g, a, n, pol, i, total_grade, total_weight) ==
    IF i > Len(g[n].children) THEN Stopped("", g, total_grade, total_weight)
    ELSE IF pol = "partial" /\ ~g[g[n].children[i]].has_grade
    THEN SumChildren(g, a, n, pol, i + 1, total_grade, total_weight)
    ELSE ChildWeighed(g, a, n, pol, i, total_grade, total_weight, g[n].children[i],
                      percent_weight(a, g[g[n].children[i]].assignment))

DigitChar(d) ==
    CASE d = 0 -> "0" [] d = 1 -> "1" [] d = 2 -> "2" [] d = 3 -> "3"
      [] d = 4 -> "4" [] d = 5 -> "5" [] d = 6 -> "6" [] d = 7 -> "7"
      [] d = 8 -> "8" [] d = 9 -> "9"

RECURSIVE NatText(_)
NatText(k) ==
    IF k < 10 THEN <<DigitChar(k)>> ELSE Append(NatText(k \div 10), DigitChar(k % 10))

\* num / den rounded to an integer, half to even
RoundHalfEven(num, den) ==
    IF 2 * (num % den) > den \/ (2 * (num % den) = den /\ (num \div den) % 2 = 1)
    THEN num \div den + 1
    ELSE num \div den

\* the text of a number of hundredths of a percent
HundredthsText(negative, hundredths) ==
    (IF negative THEN <<"-">> ELSE <<>>)
        \o NatText(hundredths \div 100)
        \o <<".", DigitChar((hundredths % 100) \div 10), DigitChar(hundredths % 10), "%">>

\* f'{float(x):.2%}': x as a percentage with two decimals, rounded half to
\* even (what the format does whenever float(x) * 100 is exact in binary;
\* the fractions met here are never half a hundredth of a percent).
percent_format(x) == HundredthsText(x[1] < 0, RoundHalfEven(Abs(x[1]) * 10000, x[2]))

Formatted(r) ==
    IF r.err # "" THEN [err |-> r.err, val |-> None]
    ELSE IF r.val = None THEN [err |-> "TypeError", val |-> None]
    ELSE [err |-> "", val |-> percent_format(r.val)]

\* The text a property that formats the aggregate of a policy returns for an
\* internal node: [err, val]
FormatGrade(g, a, n, pol) == Formatted(_weighted_grade(g, a, n, pol))

\* AssignmentGrade.display_str: [err, val]
display_str(g, a, n) ==
    IF g[n].children = <<>> THEN [err |-> "", val |-> g[n].grade_str]
    ELSE FormatGrade(g, a, n, "partial")

\* AssignmentGrade.export_str: [err, val]
export_str(g, a, n) ==
    IF g[n].children = <<>> THEN [err |-> "", val |-> g[n].grade_str]
    ELSE FormatGrade(g, a, n, "min")

(***************************************************************************)
(* GradeBook. A gradebook gb is [assignments, root, aliases, students,    *)
(* grades]: the arena and root id of the assignment tree, the keys of the  *)
(* dicts self.students and self.grades in insertion order, and one Student *)
(* and one grade arena per key.  The grade                                 *)
(* node bound to assignment n has id n in its student's arena, so every    *)
(* grade tree has the root id of the assignment tree.  Operations return   *)
(* [err, gb]: the exception raised ("" for none) and the gradebook left.   *)
(***************************************************************************)
Extend(t, n, node) == [k \in DOMAIN t \cup {n} |-> IF k = n THEN node ELSE t[k]]

NewId(a) == CHOOSE n \in 1..(Cardinality(DOMAIN a) + 1) :
                /\ n \notin DOMAIN a
                /\ \A m \in 1..(n - 1) : m \in DOMAIN a

RECURSIVE WithParents(_, _)
Grown(a, S, more) == IF more = {} THEN S ELSE WithParents(a, S \cup more)

\* S with the nodes its parent references lead to
WithParents(a, S) == Grown(a, S, {a[n].parent : n \in S} \ (S \cup {0}))

\* every grade arena cut down to the nodes of its tree
TreesOnly(gb) ==
    [al \in DOMAIN gb.grades |-> Restrict(gb.grades[al], Reach(gb.grades[al], gb.root))]

\* the assignments some grade node is bound to
Bound(grades) == UNION {DOMAIN grades[al] : al \in DOMAIN grades}

Keeping(gb, grades) ==
    [gb EXCEPT !.grades = grades,
               !.assignments =
                   Restrict(gb.assignments,
                            WithParents(gb.assignments,
                                        Reach(gb.assignments, gb.root) \cup Bound(grades)))]

\* Nodes no reference reaches are gone: a grade arena keeps the nodes of its
\* tree, the assignment arena the nodes of its tree and those a grade node
\* is still bound to (with the parents they point to).
Collect(gb) == Keeping(gb, TreesOnly(gb))

AsGrades(r) == [err |-> r.err, g |-> r.t]

\* AssignmentGrade(assignment, 'None'), then add_descendant: add_child
\* appends the node and propagates from it
AddGrade(g, a, id, new, p) ==
    IF new.err # "" THEN [err |-> new.err, g |-> g]
    ELSE IF p.err # "" THEN [err |-> p.err, g |-> g]
    ELSE _propagate(Attach(Extend(g, id, new.node), p.node, id), a, id)

\* One student's share of a structural edit: [err, g]
EditGrades(kind, g, a, root, names, id) ==
    CASE kind = "up" -> AsGrades(move_node_up(g, root, names))
      [] kind = "down" -> AsGrades(move_node_down(g, root, names))
      [] kind = "remove" -> AsGrades(remove_node(g, root, names))
      [] kind = "add" -> AddGrade(g, a, id, AssignmentGrade(a, id, <<"N", "o", "n", "e">>),
                                  AddParent(g, root, names))

\* The loop over the students cut short after its first round
ForStudents_first_only(kind, gb, names, id, i) ==
    IF i > Len(gb.aliases) THEN [err |-> "", gb |-> gb]
    ELSE LET al == gb.aliases[i]
             r == EditGrades(kind, gb.grades[al], gb.assignments, gb.root, names, id)
         IN  [err |-> r.err, gb |-> [gb EXCEPT !.grades[al] = r.g]]

RECURSIVE ForStudents(_, _, _, _, _)
\* the rest of the loop after the edit r of the tree of alias
NextStudent(kind, gb, names, id, i, alias, r) ==
    IF r.err # "" THEN [err |-> r.err, gb |-> [gb EXCEPT !.grades[alias] = r.g]]
    ELSE ForStudents(kind, [gb EXCEPT !.grades[alias] = r.g], names, id, i + 1)

\* for assignment_grade_root in self.grades.values(): ..., from the i-th
\* student on; the first exception ends the loop.
ForStudents(kind, gb, names, id, i) ==
    IF i > Len(gb.aliases) THEN [err |-> "", gb |-> gb]
    ELSE NextStudent(kind, gb, names, id, i, gb.aliases[i],
                     EditGrades(kind, gb.grades[gb.aliases[i]], gb.assignments,
                                gb.root, names, id))

Finish(r) == [err |-> r.err, gb |-> Collect(r.gb)]

\* self.assignments.add_descendant(...), then the loop over self.grades
AssignmentAdded(gb, names, id, new, p) ==
    IF new.err # "" THEN [err |-> new.err, gb |-> gb]
    ELSE IF p.err # "" THEN [err |-> p.err, gb |-> gb]
    ELSE Finish(ForStudents("add",
             [gb EXCEPT !.assignments = Attach(Extend(@, id, new.node), p.node, id)],
             names, id, 1))

\* GradeBook.add_assignment
add_assignment(gb, names, weight_str) ==
    AssignmentAdded(gb, names, NewId(gb.assignments),
                    Assignment(Last(names), weight_str, FALSE),
                    AddParent(gb.assignments, gb.root, names))

\* the loop over self.grades after the edit r of the assignment tree
AssignmentEdited(kind, gb, names, r) ==
    IF r.err # "" THEN [err |-> r.err, gb |-> gb]
    ELSE Finish(ForStudents(kind, [gb EXCEPT !.assignments = r.t], names, 0, 1))

\* GradeBook.move_assignment_up
move_assignment_up(gb, names) ==
    AssignmentEdited("up", gb, names, move_node_up(gb.assignments, gb.root, names))

\* GradeBook.move_assignment_down
move_assignment_down(gb, names) ==
    AssignmentEdited("down", gb, names, move_node_down(gb.assignments, gb.root, names))

\* GradeBook.remove_assignment
remove_assignment(gb, names) ==
    AssignmentEdited("remove", gb, names, remove_node(gb.assignments, gb.root, names))

\* GradeBook.get_grade: [err, node]
get_grade(gb, alias, names) ==
    IF alias \notin DOMAIN gb.grades THEN NotFound("KeyError")
    ELSE get(gb.grades[alias], gb.root, names)

\* the gradebook with the tree of alias as a call on one of its nodes left it
GradeTree(gb, alias, r) == [gb EXCEPT !.grades[alias] = r.g]

SetGradeOf(gb, alias, r) == [err |-> r.err, gb |-> GradeTree(gb, alias, r)]

SetGradeAt(gb, alias, text, n) ==
    IF n.err # "" THEN [err |-> n.err, gb |-> gb]
    ELSE SetGradeOf(gb, alias, set_grade(gb.grades[alias], gb.assignments, n.node, text))

\* GradeBook.set_grade
gb_set_grade(gb, alias, names, text) ==
    SetGradeAt(gb, alias, text, get_grade(gb, alias, names))

ReadGradeOf(gb, alias, r) == [err |-> r.err, val |-> r.val, gb |-> GradeTree(gb, alias, r)]

ReadGradeAt(gb, alias, pol, n) ==
    IF n.err # "" THEN [err |-> n.err, val |-> None, gb |-> gb]
    ELSE ReadGradeOf(gb, alias, _weighted_grade(gb.grades[alias], gb.assignments, n.node, pol))

\* get_grade(alias, qualified_name) followed by a read of minimum_grade,
\* partial_grade or maximum_grade: [err, val, gb]
read_grade(gb, alias, names, pol) ==
    ReadGradeAt(gb, alias, pol, get_grade(gb, alias, names))

(***************************************************************************)
(* Loading.  A file is [headings, rows].  A heading is the record of the   *)
(* groups heading_regex extracts from a header cell: [match, depth, name,  *)
(* extra_credit, weight_str]; a row is [student, cells], the Student of    *)
(* its student cell and its grade cells.                                   *)
(***************************************************************************)
Min(m, n) == IF m <= n THEN m ELSE n
Prefix(s, k) == SubSeq(s, 1, Min(k, Len(s)))

RECURSIVE Indent(_)
\* The pairs of underscores (__)* takes from the front of a cell: it is
\* greedy, and the name that follows matches whatever it would give back.
Indent(cell) ==
    IF Len(cell) >= 2 /\ cell[1] = "_" /\ cell[2] = "_"
    THEN 1 + Indent(SubSeq(cell, 3, Len(cell)))
    ELSE 0

\* [^*]*\*? matches all of s
NameAndStar(s) ==
    \/ Positions(s, "*") = {}
    \/ s # <<>> /\ Last(s) = "*" /\ Positions(Front(s), "*") = {}

\* the places of ' (' in body at which the rest of heading_regex matches
Opens(body) ==
    {p \in 1..(Len(body) - 2) :
        /\ body[p] = " " /\ body[p + 1] = "("
        /\ Positions(SubSeq(body, p + 2, Len(body) - 1), ")") = {}
        /\ NameAndStar(SubSeq(body, 1, p - 1))}

\* re.fullmatch returned None
NoMatch == [match |-> FALSE, depth |-> 0, name |-> "", extra_credit |-> FALSE,
            weight_str |-> <<>>]

\* the groups of a match, head being the name with its '*' if there is one
Groups(depth, head, weight_str) ==
    [match |-> TRUE, depth |-> depth,
     name |-> Join(IF Positions(head, "*") = {} THEN head ELSE Front(head)),
     extra_credit |-> Positions(head, "*") # {},
     weight_str |-> weight_str]

\* the greedy name ends at the last place where the rest matches
GroupsAt(depth, body, p) ==
    Groups(depth, SubSeq(body, 1, p - 1), SubSeq(body, p + 2, Len(body) - 1))

MatchBody(depth, body) ==
    IF body = <<>> \/ Last(body) # ")" \/ Opens(body) = {} THEN NoMatch
    ELSE GroupsAt(depth, body, CHOOSE p \in Opens(body) : \A q \in Opens(body) : q <= p)

\* re.fullmatch(heading_regex, heading) with depth = len(indent) // 2
heading_regex(cell) ==
    MatchBody(Indent(cell), SubSeq(cell, 2 * Indent(cell) + 1, Len(cell)))

RECURSIVE _create_assignments(_, _, _, _)
\* stack = stack[:depth]; stack[-1].add_child(assignment) unless the stack
\* is empty; stack.append(assignment)
HeadingRead(headings, i, a, stack, new) ==
    IF new.err # "" THEN [err |-> new.err, a |-> a, root |-> 0]
    ELSE _create_assignments(headings, i + 1,
             IF stack = <<>> THEN Extend(a, i, new.node)
             ELSE Attach(Extend(a, i, new.node), Last(stack), i),
             Append(stack, i))

\* GradeBook._create_assignments from the i-th heading on: [err, a, root].
\* The i-th heading becomes node i; root is stack[0], 0 for an empty stack.
_create_assignments(headings, i, a, stack) ==
    IF i > Len(headings)
    THEN IF stack = <<>> THEN [err |-> "IndexError", a |-> a, root |-> 0]
         ELSE [err |-> "", a |-> a, root |-> stack[1]]
    ELSE IF ~headings[i].match THEN [err |-> "AssertionError", a |-> a, root |-> 0]
    ELSE HeadingRead(headings, i, a, Prefix(stack, headings[i].depth),
                     Assignment(headings[i].name, headings[i].weight_str,
                                headings[i].extra_credit))

RECURSIVE _create_grades(_, _, _, _, _, _)
\* stack.append(grade), then the next pair
GradeAdded(a, order, grade_strs, k, stack, r) ==
    IF r.err # "" THEN [err |-> r.err, g |-> r.g]
    ELSE _create_grades(a, order, grade_strs, k + 1, r.g, Append(stack, order[k]))

\* stack = stack[:depth]; stack[-1].add_child(grade) unless the stack is
\* empty
CellRead(a, order, grade_strs, k, g, stack, new) ==
    IF new.err # "" THEN [err |-> new.err, g |-> g]
    ELSE GradeAdded(a, order, grade_strs, k, stack,
             IF stack = <<>> THEN [err |-> "", g |-> Extend(g, order[k], new.node)]
             ELSE _propagate(Attach(Extend(g, order[k], new.node), Last(stack), order[k]),
                             a, order[k]))

\* GradeBook._create_grades over zip(assignments.traversal, grade_strs) from
\* the k-th pair on: [err, g]
_create_grades(a, order, grade_strs, k, g, stack) ==
    IF k > Min(Len(order), Len(grade_strs))
    THEN IF stack = <<>> THEN [err |-> "IndexError", g |-> g]
         ELSE [err |-> "", g |-> g]
    ELSE CellRead(a, order, grade_strs, k, g, Prefix(stack, a[order[k]].depth),
                  AssignmentGrade(a, order[k], grade_strs[k]))

EmptyArena == [n \in {} |-> 0]

\* Student.__init__ with the alias property, the part of the email before
\* its first '@'
Student(first_name, last_name, email) ==
    [first_name |-> first_name, last_name |-> last_name, email |-> email,
     alias |-> Join(BeforeFirst(email, "@"))]

\* the keys of self.grades after self.grades[alias] = ...
WithKey(aliases, alias) ==
    IF alias \in Range(aliases) THEN aliases ELSE Append(aliases, alias)

RECURSIVE ReadRows(_, _, _)
\* self.students[alias] = student and
\* self.grades[alias] = self._create_grades(grade_strs), then the next row
RowRead(rows, i, gb, alias, r) ==
    IF r.err # "" THEN [err |-> r.err, gb |-> gb]
    ELSE ReadRows(rows, i + 1,
             [gb EXCEPT !.aliases = WithKey(gb.aliases, alias),
                        !.students = [al \in Range(WithKey(gb.aliases, alias)) |->
                                          IF al = alias THEN rows[i].student
                                          ELSE gb.students[al]],
                        !.grades = [al \in Range(WithKey(gb.aliases, alias)) |->
                                        IF al = alias THEN r.g ELSE gb.grades[al]]])

\* The loop of GradeBook._read_csv over the data rows from the i-th on
ReadRows(rows, i, gb) ==
    IF i > Len(rows) THEN [err |-> "", gb |-> gb]
    ELSE RowRead(rows, i, gb, rows[i].student.alias,
                 _create_grades(gb.assignments, traversal(gb.assignments, gb.root),
                                rows[i].cells, 1, EmptyArena, <<>>))

\* the gradebook after the header row: no student yet
HeaderOnly(t) ==
    [assignments |-> t.a, root |-> t.root,
     aliases |-> <<>>, students |-> [al \in {} |-> <<>>],
     grades |-> [al \in {} |-> EmptyArena]]

RowsRead(r) == IF r.err # "" THEN r ELSE [err |-> "", gb |-> Collect(r.gb)]

HeaderRead(file, t) ==
    IF t.err # "" THEN [err |-> t.err, gb |-> HeaderOnly(t)]
    ELSE RowsRead(ReadRows(file.rows, 1, HeaderOnly(t)))

\* GradeBook.__init__ with _read_csv: [err, gb]
GradeBook(file) == HeaderRead(file, _create_assignments(file.headings, 1, EmptyArena, <<>>))

(***************************************************************************)
(* The text of the file.  A csv is [header, rows]: the header cells after  *)
(* 'Student' as texts, and the rows as [student, cells].  The names of the *)
(* model have at most one character, so the text of a name is that         *)
(* character.                                                              *)
(***************************************************************************)
\* GradeBook._read_csv on the cells of a file: [err, gb]
_read_csv(csv) ==
    GradeBook([headings |-> [i \in 1..Len(csv.header) |-> heading_regex(csv.header[i])],
               rows |-> csv.rows])

\* Assignment.__str__
AssignmentStr(node) ==
    (IF node.name = "" THEN <<>> ELSE <<node.name>>)
        \o (IF node.extra_credit THEN <<"*">> ELSE <<>>)
        \o <<" ", "(">> \o node.weight_str \o <<")">>

\* NamedNode.to_heading
to_heading(a, n) == [i \in 1..(2 * a[n].depth) |-> "_"] \o AssignmentStr(a[n])

\* export_str with the tree it leaves: [err, val, g]
Exporting(g, n, r) ==
    [err |-> Formatted(r).err, val |-> Formatted(r).val, g |-> r.g]

ExportStr(g, a, n) ==
    IF g[n].children = <<>> THEN [err |-> "", val |-> g[n].grade_str, g |-> g]
    ELSE Exporting(g, n, _weighted_grade(g, a, n, "min"))

RECURSIVE ExportRow(_, _, _, _, _)
Exported(a, order, k, cells, r) ==
    IF r.err # "" THEN [err |-> r.err, cells |-> cells, g |-> r.g]
    ELSE ExportRow(a, order, k + 1, r.g, Append(cells, r.val))

\* export_str of the nodes of a grade tree in traversal order, from the
\* k-th on: [err, cells, g]
ExportRow(a, order, k, g, cells) ==
    IF k > Len(order) THEN [err |-> "", cells |-> cells, g |-> g]
    ELSE Exported(a, order, k, cells, ExportStr(g, a, order[k]))

RECURSIVE WriteRows(_, _, _)
\* fd.write of the row of alias unless an export_str raised
RowWritten(gb, i, csv, alias, r) ==
    IF r.err # "" THEN [err |-> r.err, csv |-> csv, gb |-> GradeTree(gb, alias, r)]
    ELSE WriteRows(GradeTree(gb, alias, r), i + 1,
                   [csv EXCEPT !.rows = Append(@, [student |-> gb.students[alias],
                                                   cells |-> r.cells])])

\* for alias, assignment_grade_root in self.grades.items(), from the i-th
\* key on: [err, csv, gb], csv being what the file holds when it is closed
WriteRows(gb, i, csv) ==
    IF i > Len(gb.aliases) THEN [err |-> "", csv |-> csv, gb |-> gb]
    ELSE RowWritten(gb, i, csv, gb.aliases[i],
                    ExportRow(gb.assignments,
                              traversal(gb.grades[gb.aliases[i]], gb.root), 1,
                              gb.grades[gb.aliases[i]], <<>>))

\* GradeBook.write_csv onto csv_path: the file is opened with 'w', the
\* header row written, then the rows
write_csv(gb) ==
    WriteRows(gb, 1,
              [header |-> [k \in 1..Len(traversal(gb.assignments, gb.root)) |->
                              to_heading(gb.assignments,
                                         traversal(gb.assignments, gb.root)[k])],
               rows |-> <<>>])

(***************************************************************************)
(* Bounds and inputs.                                                      *)
(***************************************************************************)
\* the assignment tree never grows beyond MaxNodes nodes
MaxNodes == 4
\* a run makes at most MaxOps calls after the load
MaxOps == 2

T_None == <<"N", "o", "n", "e">>
T_100pct == <<"1", "0", "0", "%">>
T_0pct == <<"0", "%">>
T_50pct == <<"5", "0", "%">>
T_40pct == <<"4", "0", "%">>
T_60pct == <<"6", "0", "%">>
T_10 == <<"1", "0">>
T_20 == <<"2", "0">>
T_bad == <<"x">>

ROOT_NAME == "r"

\* the qualified names the operations are called with: the root, paths
\* under it, and one that does not start at the root
QNames == {<<ROOT_NAME>>, <<ROOT_NAME, "a">>, <<ROOT_NAME, "b">>,
           <<ROOT_NAME, "a", "b">>, <<"a">>}

\* the weight texts add_assignment is called with
WeightTexts == {T_10, T_bad}
\* the grade texts set_grade is called with
GradeTexts == {T_None, T_100pct, T_bad}

Heading(depth, name, extra_credit, weight_str) ==
    [match |-> TRUE, depth |-> depth, name |-> name, extra_credit |-> extra_credit,
     weight_str |-> weight_str]

\* the header rows of the files loaded
Headers ==
    { \* points weights
      <<Heading(0, ROOT_NAME, FALSE, T_100pct), Heading(1, "a", FALSE, T_10),
        Heading(1, "b", FALSE, T_20)>>,
      \* percent weights
      <<Heading(0, ROOT_NAME, FALSE, T_100pct), Heading(1, "a", FALSE, T_40pct),
        Heading(1, "b", FALSE, T_60pct)>>,
      \* an extra-credit sibling
      <<Heading(0, ROOT_NAME, FALSE, T_100pct), Heading(1, "a", FALSE, T_10),
        Heading(1, "b", TRUE, T_10)>>,
      \* a nested assignment
      <<Heading(0, ROOT_NAME, FALSE, T_100pct), Heading(1, "a", FALSE, T_50pct),
        Heading(2, "b", FALSE, T_10)>> }

\* the students of the data rows
Students == <<Student("F", "L", <<"s", "1", "@", "x">>),
              Student("G", "M", <<"s", "2", "@", "x">>)>>

\* the well-formed files: every row has one cell per heading
Files ==
    { [headings |-> h,
       rows |-> <<[student |-> Students[1], cells |-> <<T_0pct>> \o c],
                  [student |-> Students[2], cells |-> <<T_0pct, T_100pct, T_None>>]>>] :
        h \in Headers, c \in {<<T_None, T_100pct>>, <<T_100pct, T_50pct>>, <<T_50pct, T_None>>} }

\* a data row of the files read by the loader has at most MaxCells grade cells
MaxCells == 4

\* files whose two rows have from 0 to MaxCells grade cells each, under
\* headers of three headings
LoadFiles ==
    { [headings |-> h,
       rows |-> <<[student |-> Students[1],
                   cells |-> Prefix(<<T_0pct, T_100pct, T_50pct, T_None, T_None>>, k1)],
                  [student |-> Students[2],
                   cells |-> Prefix(<<T_0pct, T_None, T_100pct, T_50pct, T_None>>, k2)]>>] :
        h \in Headers, k1 \in 0..MaxCells, k2 \in 0..MaxCells }

(***************************************************************************)
(* The gradebook as a state machine: Init is a loaded gradebook, and each  *)
(* action is one call of a GradeBook operation.  last records the call:    *)
(* its name, the exception it raised ("" for none) and the branch taken.   *)
(* changed is APP.config['changed'] of the web app, which only the routes  *)
(* of the app set.                                                         *)
(***************************************************************************)
VARIABLES file, assignments, root, aliases, students, grades, last, ops, changed

vars == <<file, assignments, root, aliases, students, grades, last, ops, changed>>

GB == [assignments |-> assignments, root |-> root, aliases |-> aliases,
       students |-> students, grades |-> grades]

Becomes(gb) ==
    /\ assignments' = gb.assignments
    /\ root' = gb.root
    /\ aliases' = gb.aliases
    /\ students' = gb.students
    /\ grades' = gb.grades
    /\ ops' = ops + 1
    /\ file' = file

Call(op, err, path) == [op |-> op, err |-> err, path |-> path]

\* the call op returned r = [err, gb] on the branch path
Returns(op, r, path) ==
    /\ Becomes(r.gb)
    /\ last' = Call(op, r.err, path)
    /\ changed' = changed

\* the constructor returned the gradebook the variables hold
Opened(r) ==
    /\ r.err = ""
    /\ assignments = r.gb.assignments
    /\ root = r.gb.root
    /\ aliases = r.gb.aliases
    /\ students = r.gb.students
    /\ grades = r.gb.grades

Init ==
    /\ file \in Files
    /\ Opened(GradeBook(file))
    /\ last = Call("load", "", "")
    /\ ops = 0
    /\ changed = FALSE

AddAssignment ==
    \E names \in QNames, weight_str \in WeightTexts :
        /\ Cardinality(DOMAIN assignments) < MaxNodes
        /\ Returns("add_assignment", add_assignment(GB, names, weight_str), "")

IsFirstChild(t, names, d) ==
    d.err = "" /\ index_of(t, t[d.node].parent, Last(names)) = 1

IsFirst(t, r, names) == IsFirstChild(t, names, Addressed(t, r, names))

IsLastChild(t, names, d) ==
    /\ d.err = ""
    /\ index_of(t, t[d.node].parent, Last(names)) = Len(t[t[d.node].parent].children)

IsLast(t, r, names) == IsLastChild(t, names, Addressed(t, r, names))

MoveAssignmentUp ==
    \E names \in QNames :
        Returns("move_assignment_up", move_assignment_up(GB, names),
                IF IsFirst(assignments, root, names) THEN "boundary" ELSE "")

MoveAssignmentDown ==
    \E names \in QNames :
        Returns("move_assignment_down", move_assignment_down(GB, names),
                IF IsLast(assignments, root, names) THEN "boundary" ELSE "")

RemoveAssignment ==
    \E names \in QNames :
        Returns("remove_assignment", remove_assignment(GB, names), "")

\* the early return of set_grade: the node holds the stripped text already
SameText(g, n, text) == n.err = "" /\ g[n.node].grade_str = Strip(text)

SetGrade ==
    \E i \in 1..Len(aliases), names \in QNames, text \in GradeTexts :
        Returns("set_grade", gb_set_grade(GB, aliases[i], names, text),
                IF SameText(grades[aliases[i]], get_grade(GB, aliases[i], names), text)
                THEN "same" ELSE "")

ReadReturns(r, pol) == Returns("read_grade", r, IF r.err = "" THEN pol ELSE "")

ReadGrade ==
    \E i \in 1..Len(aliases), names \in QNames, pol \in Policies :
        ReadReturns(read_grade(GB, aliases[i], names, pol), pol)

Next ==
    /\ ops < MaxOps
    /\ \/ AddAssignment
       \/ MoveAssignmentUp
       \/ MoveAssignmentDown
       \/ RemoveAssignment
       \/ SetGrade
       \/ ReadGrade

Spec == Init /\ [][Next]_vars

(***************************************************************************)
(* The loader as a state machine: Init is a file about to be read and no   *)
(* gradebook; Load is the call GradeBook(csv_path), which leaves a         *)
(* gradebook only when the constructor returns.                            *)
(***************************************************************************)
NoGradeBook == [assignments |-> EmptyArena, root |-> 0, aliases |-> <<>>,
                students |-> [al \in {} |-> <<>>],
                grades |-> [al \in {} |-> EmptyArena]]

InitLoad ==
    /\ file \in LoadFiles
    /\ assignments = NoGradeBook.assignments
    /\ root = NoGradeBook.root
    /\ aliases = NoGradeBook.aliases
    /\ students = NoGradeBook.students
    /\ grades = NoGradeBook.grades
    /\ last = Call("new", "", "")
    /\ ops = 0
    /\ changed = FALSE

\* the outcome r = [err, gb] of the constructor
Constructed(r) ==
    /\ Becomes(IF r.err = "" THEN r.gb ELSE NoGradeBook)
    /\ last' = Call("load", r.err, "")
    /\ changed' = changed

Load ==
    /\ last.op = "new"
    /\ Constructed(GradeBook(file))

NextLoad == Load

SpecLoad == InitLoad /\ [][NextLoad]_vars

(***************************************************************************)
(* The operations on every gradebook the constructor returns: Init is the  *)
(* gradebook loaded from a file whose rows may have fewer or more grade    *)
(* cells than the header has headings.                                     *)
(***************************************************************************)
InitAnyFile ==
    /\ file \in LoadFiles
    /\ Opened(GradeBook(file))
    /\ last = Call("load", "", "")
    /\ ops = 0
    /\ changed = FALSE

SpecAnyFile == InitAnyFile /\ [][Next]_vars

(***************************************************************************)
(* The file as a state machine: file holds the cells of csv_path as texts. *)
(* LoadCsv is the call GradeBook(csv_path), WriteCsv the call write_csv()  *)
(* of the gradebook loaded, which replaces the file.                       *)
(***************************************************************************)
\* a run makes at most MaxCalls calls on the file
MaxCalls == 4

T_0 == <<"0">>
Paren(weight_str) == <<" ", "(">> \o weight_str \o <<")">>
Under(cell) == <<"_", "_">> \o cell

\* the header rows of the files, cell by cell
CsvHeaders ==
    { \* points weights
      <<<<"r">> \o Paren(T_100pct), Under(<<"a">> \o Paren(T_10)),
        Under(<<"b">> \o Paren(T_20))>>,
      \* points weights of 0
      <<<<"r">> \o Paren(T_100pct), Under(<<"a">> \o Paren(T_0)),
        Under(<<"b">> \o Paren(T_0))>>,
      \* an extra-credit sibling
      <<<<"r">> \o Paren(T_100pct), Under(<<"a">> \o Paren(T_10)),
        Under(<<"b", "*">> \o Paren(T_10))>>,
      \* a nested assignment
      <<<<"r">> \o Paren(T_100pct), Under(<<"a">> \o Paren(T_50pct)),
        Under(Under(<<"b">> \o Paren(T_10)))>>,
      \* two siblings of one name
      <<<<"r">> \o Paren(T_100pct), Under(<<"a">> \o Paren(T_10)),
        Under(<<"a">> \o Paren(T_20))>>,
      \* a cell indented two levels deeper than the cell before it
      <<<<"r">> \o Paren(T_100pct), Under(Under(<<"a">> \o Paren(T_10))),
        Under(<<"b">> \o Paren(T_20))>>,
      \* a second cell without indentation
      <<<<"r">> \o Paren(T_100pct), Under(<<"a">> \o Paren(T_10)),
        <<"b">> \o Paren(T_20)>>,
      \* a cell without the parentheses of the weight
      <<<<"r">> \o Paren(T_100pct), Under(<<"a", " ">> \o T_10),
        Under(<<"b">> \o Paren(T_20))>>,
      \* a weight text that is no weight
      <<<<"r">> \o Paren(T_100pct), Under(<<"a">> \o Paren(T_bad)),
        Under(<<"b">> \o Paren(T_20))>> }

\* the students of the second data row: another alias, or the alias of the
\* first row at another domain
SecondStudents == {Students[2], Student("H", "N", <<"s", "1", "@", "y">>)}

CsvFiles ==
    { [header |-> h,
       rows |-> <<[student |-> Students[1], cells |-> c],
                  [student |-> s, cells |-> <<T_0pct, T_None, T_100pct>>]>>] :
        h \in CsvHeaders, s \in SecondStudents,
        c \in {<<T_0pct, T_100pct, T_50pct>>, <<T_50pct, T_100pct, T_None>>} }

InitCsv ==
    /\ file \in CsvFiles
    /\ assignments = NoGradeBook.assignments
    /\ root = NoGradeBook.root
    /\ aliases = NoGradeBook.aliases
    /\ students = NoGradeBook.students
    /\ grades = NoGradeBook.grades
    /\ last = Call("new", "", "")
    /\ ops = 0
    /\ changed = FALSE

LoadCsv == Constructed(_read_csv(file))

\* write_csv returned r = [err, csv, gb]
Written(r) ==
    /\ file' = r.csv
    /\ assignments' = r.gb.assignments
    /\ root' = r.gb.root
    /\ aliases' = r.gb.aliases
    /\ students' = r.gb.students
    /\ grades' = r.gb.grades
    /\ ops' = ops + 1
    /\ last' = Call("write_csv", r.err, "")
    /\ changed' = changed

\* a gradebook has been loaded
WriteCsv ==
    /\ root # 0
    /\ Written(write_csv(GB))

NextCsv ==
    /\ ops < MaxCalls
    /\ \/ LoadCsv
       \/ WriteCsv

SpecCsv == InitCsv /\ [][NextCsv]_vars

(***************************************************************************)
(* Properties of the gradebook.                                            *)
(***************************************************************************)
\* the qualified names of a tree in pre-order: its shape, its names and the
\* order of its siblings
Names(t, r) ==
    LET order == traversal(t, r)
    IN  [i \in 1..Len(order) |-> qualified_name(t, order[i])]

\* the three aggregates a read of the node returns now, as [err, val]
Aggregates(g, a, n) ==
    [pol \in Policies |->
        LET r == _weighted_grade(g, a, n, pol) IN [err |-> r.err, val |-> r.val]]

Leaves(g, n) == {m \in Reach(g, n) : g[m].children = <<>>}

\* C1: after any sequence of add_assignment, move_assignment_up,
\* move_assignment_down, remove_assignment and set_grade calls, successful
\* or failing, every student's grade tree has the shape, the qualified names
\* and the sibling order of the assignment tree.
C1_Isomorphic ==
    /\ DOMAIN grades = Range(aliases)
    /\ \A al \in DOMAIN grades : Names(grades[al], root) = Names(assignments, root)

\* C1: an assignment was added after another structural edit had removed one
C1_Witness ==
    /\ last = Call("add_assignment", "", "")
    /\ ops = 2
    /\ Len(traversal(assignments, root)) = 3
    /\ \E al \in DOMAIN grades : Len(traversal(grades[al], root)) = 3

\* The grade tree as propagation from every leaf leaves it: every cache on
\* every chain of ancestors cleared, every has_grade and parsed grade
\* recomputed from the leaves' texts.
RECURSIVE PropagateAll(_, _, _)
PropagateAll(g, a, ns) ==
    IF ns = <<>> THEN g
    ELSE PropagateAll(_propagate(g, a, Head(ns)).g, a, Tail(ns))

Recomputed(g, a, r) ==
    LET order == traversal(g, r)
        leaves == SelectSeq(order, LAMBDA m : g[m].children = <<>>)
    IN  PropagateAll(g, a, leaves)

\* C2: after a successful set_grade, add_assignment or remove_assignment,
\* the next read of the MIN, PARTIAL or MAX aggregate of any node equals the
\* value recomputed from the current leaves and weights.
C2_CachesInvalidated ==
    (last.op \in {"set_grade", "add_assignment", "remove_assignment"} /\ last.err = "") =>
        \A al \in DOMAIN grades :
            \A n \in Reach(grades[al], root) :
                Aggregates(grades[al], assignments, n)
                    = Aggregates(Recomputed(grades[al], assignments, root), assignments, n)

\* the node and its ancestors, up to the root
RECURSIVE Chain(_, _)
Chain(g, n) == IF g[n].parent = 0 THEN {n} ELSE {n} \cup Chain(g, g[n].parent)

\* what a caller can observe of a node and of its ancestors
Observed(g, a, n) ==
    [m \in Chain(g, n) |->
        [grade_str |-> g[m].grade_str,
         percent_grade |-> g[m].percent_grade,
         has_grade |-> g[m].has_grade,
         aggregates |-> Aggregates(g, a, m),
         display_str |-> display_str(g, a, m),
         export_str |-> export_str(g, a, m)]]

\* C3: a set_grade call that fails on a malformed grade text leaves the raw
\* text, the parsed value, the has_grade flags and every aggregate, display
\* string and export string of the leaf and of its ancestors as they were.
C3_FailedSetGradeKeepsState ==
    \A al \in DOMAIN grades, names \in QNames, text \in GradeTexts :
        LET n == get_grade(GB, al, names)
            r == gb_set_grade(GB, al, names, text)
        IN  (n.err = "" /\ r.err = "ValueError") =>
                Observed(r.gb.grades[al], r.gb.assignments, n.node)
                    = Observed(grades[al], assignments, n.node)

\* some data row of the file has more or fewer grade cells than the
\* assignment tree of its header has nodes
CellCountMismatch(f) ==
    LET t == _create_assignments(f.headings, 1, EmptyArena, <<>>)
    IN  /\ t.err = ""
        /\ \E i \in 1..Len(f.rows) :
               Len(f.rows[i].cells) # Len(traversal(t.a, t.root))

\* C4: loading a file in which a data row's number of grade cells differs
\* from the number of nodes of the assignment tree fails; it produces no
\* gradebook with a smaller grade tree or with surplus cells ignored.
C4_MismatchFails ==
    (last.op = "load" /\ CellCountMismatch(file)) => last.err # ""

\* whether the three reads of a node all return a number
Numbers(r) == \A pol \in Policies : r[pol].err = "" /\ r[pol].val # None

\* C5: for every grade node with an ungraded leaf in its subtree,
\* minimum_grade <= partial_grade <= maximum_grade.
C5_Ordered ==
    \A al \in DOMAIN grades :
        \A n \in Reach(grades[al], root) :
            LET r == Aggregates(grades[al], assignments, n)
            IN  ((\E m \in Leaves(grades[al], n) : ~grades[al][m].has_grade) /\ Numbers(r)) =>
                    FLe(r["min"].val, r["partial"].val) /\ FLe(r["partial"].val, r["max"].val)

\* C6: for every grade node whose subtree has every leaf graded,
\* minimum_grade = partial_grade = maximum_grade.
C6_GradedEqual ==
    \A al \in DOMAIN grades :
        \A n \in Reach(grades[al], root) :
            LET r == Aggregates(grades[al], assignments, n)
            IN  ((\A m \in Leaves(grades[al], n) : grades[al][m].has_grade) /\ Numbers(r)) =>
                    r["min"].val = r["partial"].val /\ r["partial"].val = r["max"].val

\* the weight text is a points weight: the branch of percent_weight that
\* divides by the siblings' total
PointsKind(a, n) ==
    /\ Positions(a[n].weight_str, "%") = {}
    /\ Positions(a[n].weight_str, "/") = {}
    /\ DigitsOrDots(a[n].weight_str)

NonExtraCredit(a, cs) == SelectSeq(cs, LAMBDA c : ~a[c].extra_credit)

\* the sum of the weights of the nodes listed
RECURSIVE TotalWeight(_, _)
TotalWeight(a, cs) ==
    IF cs = <<>> THEN FZero ELSE FAdd(a[Head(cs)].weight, TotalWeight(a, Tail(cs)))

\* the sum of percent_weight over the nodes listed; None when a
\* percent_weight raises
RECURSIVE TotalPercentWeight(_, _)
TotalPercentWeight(a, cs) ==
    IF cs = <<>> THEN FZero
    ELSE LET rest == TotalPercentWeight(a, Tail(cs))
             w == percent_weight(a, Head(cs))
         IN  IF rest = None \/ w.err # "" THEN None ELSE FAdd(w.val, rest)

Internal(a, r) == {n \in Reach(a, r) : a[n].children # <<>>}

AllPoints(a, n) ==
    /\ \A i \in 1..Len(a[n].children) : PointsKind(a, a[n].children[i])
    /\ TotalWeight(a, a[n].children) # FZero

Siblings(a, n) == a[a[n].parent].children

\* four sibling leaves with the points weights 10, 10, 10 and 20
ExampleTree ==
    _create_assignments(<<Heading(0, ROOT_NAME, FALSE, T_100pct),
                          Heading(1, "a", FALSE, T_10), Heading(1, "b", FALSE, T_10),
                          Heading(1, "c", FALSE, T_10), Heading(1, "d", FALSE, T_20)>>,
                        1, EmptyArena, <<>>)

ExampleWeights ==
    [i \in 1..4 |-> percent_weight(ExampleTree.a, ExampleTree.a[ExampleTree.root].children[i])]

RepeatedTexts == GradeTexts \cup {<<" ">> \o T_100pct}

\* C9: the second of two set_grade calls in a row with the same text is a
\* no-op: it raises nothing and leaves every text, parsed value, has_grade
\* flag and cache entry as the first call left them; and a call with the
\* text the node already has clears no cache entry.
C9_SetGradeIdempotent ==
    \A al \in DOMAIN grades, names \in QNames, text \in RepeatedTexts :
        LET n == get_grade(GB, al, names)
            first == gb_set_grade(GB, al, names, text)
            second == gb_set_grade(first.gb, al, names, text)
        IN  n.err = "" =>
                /\ second = [err |-> "", gb |-> first.gb]
                /\ grades[al][n.node].grade_str = Strip(text) => first = [err |-> "", gb |-> GB]

\* C9: set_grade was called with the text the node already had, while an
\* aggregate was memoized
C9_Witness ==
    /\ last = Call("set_grade", "", "same")
    /\ \E al \in DOMAIN grades : \E n \in Reach(grades[al], root) :
           grades[al][n].cache # EmptyCache

\* C10: move_node_up on a first child and move_node_down on a last child
\* raise nothing and change no sibling order, in the assignment tree and in
\* every student's grade tree, and so do move_assignment_up and
\* move_assignment_down.
C10_BoundaryMoveKeepsOrder ==
    \A names \in QNames :
        /\ IsFirst(assignments, root, names) =>
               /\ move_node_up(assignments, root, names) = [err |-> "", t |-> assignments]
               /\ move_assignment_up(GB, names) = [err |-> "", gb |-> GB]
        /\ IsLast(assignments, root, names) =>
               /\ move_node_down(assignments, root, names) = [err |-> "", t |-> assignments]
               /\ move_assignment_down(GB, names) = [err |-> "", gb |-> GB]
        /\ \A al \in DOMAIN grades :
               /\ IsFirst(grades[al], root, names) =>
                      move_node_up(grades[al], root, names) = [err |-> "", t |-> grades[al]]
               /\ IsLast(grades[al], root, names) =>
                      move_node_down(grades[al], root, names) = [err |-> "", t |-> grades[al]]

\* C10: move_assignment_up was called on the first of several siblings
C10_Witness ==
    /\ last = Call("move_assignment_up", "", "boundary")
    /\ Len(assignments[root].children) >= 2

\* C11: a structural edit that fails (add_assignment with a malformed weight
\* text or a parent path that does not resolve; move_assignment_up,
\* move_assignment_down or remove_assignment with a name that does not
\* resolve) leaves the assignment tree and every student's grade tree
\* exactly as they were before the call.
C11_FailedEditKeepsTrees ==
    \A names \in QNames :
        /\ \A weight_str \in WeightTexts :
               add_assignment(GB, names, weight_str).err # "" =>
                   add_assignment(GB, names, weight_str).gb = GB
        /\ move_assignment_up(GB, names).err # "" => move_assignment_up(GB, names).gb = GB
        /\ move_assignment_down(GB, names).err # "" =>
               move_assignment_down(GB, names).gb = GB
        /\ remove_assignment(GB, names).err # "" => remove_assignment(GB, names).gb = GB


\* the header is the pre-order encoding of one tree: every cell matches the
\* heading grammar, the first has no indentation, and every other cell is
\* indented at least one level and at most one level more than the cell
\* before it
PreOrder(header) ==
    /\ header # <<>>
    /\ \A i \in 1..Len(header) : heading_regex(header[i]).match
    /\ heading_regex(header[1]).depth = 0
    /\ \A i \in 2..Len(header) :
           /\ heading_regex(header[i]).depth >= 1
           /\ heading_regex(header[i]).depth <= heading_regex(header[i - 1]).depth + 1

\* a well-formed file: the header encodes one tree, every row has one cell
\* per heading and its own alias, and the loader accepts every text
WellFormed(csv) ==
    /\ PreOrder(csv.header)
    /\ \A i \in 1..Len(csv.rows) : Len(csv.rows[i].cells) = Len(csv.header)
    /\ \A i, j \in 1..Len(csv.rows) :
           csv.rows[i].student.alias = csv.rows[j].student.alias => i = j
    /\ _read_csv(csv).err = ""

\* the header and the leaf cells of the file written are those of csv
SameLeaves(gb, csv, written) ==
    /\ written.header = csv.header
    /\ Len(written.rows) = Len(csv.rows)
    /\ \A i \in 1..Len(csv.rows) :
           /\ Len(written.rows[i].cells) = Len(csv.rows[i].cells)
           /\ \A k \in 1..Len(csv.rows[i].cells) :
                  gb.assignments[traversal(gb.assignments, gb.root)[k]].children = <<>> =>
                      written.rows[i].cells[k] = csv.rows[i].cells[k]

\* C12: for every well-formed file X, write_csv of the gradebook loaded
\* from X returns and gives the header row and every leaf grade cell of X,
\* and loading what it wrote and writing again gives the same file.
C12_RoundTrip ==
    (last.op = "load" /\ last.err = "" /\ WellFormed(file)) =>
        LET w == write_csv(GB)
            l == _read_csv(w.csv)
        IN  /\ w.err = ""
            /\ SameLeaves(GB, file, w.csv)
            /\ l.err = ""
            /\ write_csv(l.gb).err = ""
            /\ write_csv(l.gb).csv = w.csv

\* the nodes of the tree rooted at r whose qualified name is names
Resolving(t, r, names) == {n \in Reach(t, r) : qualified_name(t, n) = names}

\* C13: get(qualified_name) returns a node of that qualified name when every
\* segment matches, and raises KeyError when some segment, the root segment
\* included, matches nothing; `qualified_name in tree` then returns False
\* without raising.
C13_GetResolves ==
    \A names \in QNames :
        /\ Resolving(assignments, root, names) # {} =>
               /\ get(assignments, root, names).err = ""
               /\ get(assignments, root, names).node \in Resolving(assignments, root, names)
               /\ __contains__(assignments, root, names) = [err |-> "", val |-> TRUE]
        /\ Resolving(assignments, root, names) = {} =>
               /\ get(assignments, root, names).err = "KeyError"
               /\ __contains__(assignments, root, names) = [err |-> "", val |-> FALSE]

\* grade texts that match no pattern ('x'), name a letter outside the table
\* ('E', 'A+'), or have a zero denominator ('1/0')
UnparseableTexts == {T_bad, <<"E">>, <<"A", "+">>, <<"1", "/", "0">>}

\* C14: every set_grade call with a text that matches no pattern, names a
\* letter outside the table or has a zero denominator raises the parse
\* error (ValueError), the repeated call with the same text included.
C14_UnparseableIsParseError ==
    \A i \in 1..Len(aliases), names \in QNames, text \in UnparseableTexts :
        get_grade(GB, aliases[i], names).err = "" =>
            gb_set_grade(GB, aliases[i], names, text).err = "ValueError"

\* the children of every node of the tree rooted at r have distinct names
DistinctSiblings(t, r) ==
    \A n \in Reach(t, r) : \A i, j \in 1..Len(t[n].children) :
        t[t[n].children[i]].name = t[t[n].children[j]].name => i = j

\* C15: in every reachable state the children of every node of the
\* assignment tree and of every grade tree have pairwise distinct names.
C15_SiblingNamesDistinct ==
    /\ DistinctSiblings(assignments, root)
    /\ \A al \in DOMAIN grades : DistinctSiblings(grades[al], root)

\* C16: a load that returns leaves one Student and one grade tree per data
\* row: students and grades have as many entries as the file has data
\* rows, and every row's student and grades are found under its alias.
C16_OneEntryPerRow ==
    (last.op = "load" /\ last.err = "") =>
        /\ Cardinality(DOMAIN students) = Len(file.rows)
        /\ Cardinality(DOMAIN grades) = Len(file.rows)
        /\ \A i \in 1..Len(file.rows) :
               /\ file.rows[i].student.alias \in DOMAIN students \cap DOMAIN grades
               /\ students[file.rows[i].student.alias] = file.rows[i].student
               /\ grades[file.rows[i].student.alias][root].grade_str =
                      Strip(file.rows[i].cells[1])

\* C17: loading a file whose header row is not the pre-order encoding of
\* one tree (a cell outside the heading grammar, a cell indented more than
\* one level deeper than the cell before it, a second cell without
\* indentation) fails with the parse error (ValueError).
C17_BadHeaderIsParseError ==
    (last.op = "load" /\ ~PreOrder(file.header)) => last.err = "ValueError"

\* the tree t2 is the tree t with the new leaf id as the last child of the
\* parent that names addresses, every other node keeping its name and its
\* children in their order
AddedLast(t, t2, r, names, id) ==
    LET p == AddParent(t, r, names).node
    IN  /\ id \notin Reach(t, r)
        /\ Reach(t2, r) = Reach(t, r) \cup {id}
        /\ t2[p].children = Append(t[p].children, id)
        /\ t2[id].name = Last(names)
        /\ t2[id].children = <<>>
        /\ t2[id].parent = p
        /\ \A n \in Reach(t, r) \ {p} : t2[n].children = t[n].children
        /\ \A n \in Reach(t, r) : t2[n].name = t[n].name

\* C18: after an add_assignment that returns, the new node is the last
\* child of the addressed parent in the assignment tree, every grade tree
\* has a new leaf without a grade under the same qualified name as the last
\* child of its parent, and every node there was keeps its place among its
\* siblings and its raw grade text.
C18_AddAppendsLeaf ==
    \A names \in QNames, weight_str \in WeightTexts :
        LET r == add_assignment(GB, names, weight_str)
            id == NewId(assignments)
        IN  r.err = "" =>
                /\ r.gb.root = root
                /\ r.gb.aliases = aliases
                /\ AddedLast(assignments, r.gb.assignments, root, names, id)
                /\ \A al \in DOMAIN grades :
                       /\ AddedLast(grades[al], r.gb.grades[al], root, names, id)
                       /\ ~r.gb.grades[al][id].has_grade
                       /\ r.gb.grades[al][id].grade_str = T_None
                       /\ qualified_name(r.gb.grades[al], id) =
                              qualified_name(r.gb.assignments, id)
                       /\ \A n \in Reach(grades[al], root) :
                              r.gb.grades[al][n].grade_str = grades[al][n].grade_str

\* C18: add_assignment returned after appending a leaf behind a sibling in
\* a gradebook with a graded node
C18_Witness ==
    /\ last = Call("add_assignment", "", "")
    /\ \E n \in Reach(assignments, root) :
           /\ Len(assignments[n].children) >= 2
           /\ assignments[Last(assignments[n].children)].children = <<>>
           /\ \A al \in DOMAIN grades :
                  /\ Last(grades[al][n].children) = Last(assignments[n].children)
                  /\ ~grades[al][Last(grades[al][n].children)].has_grade
    /\ \E al \in DOMAIN grades : \E n \in Reach(grades[al], root) : grades[al][n].has_grade

\* the tree t2 is the tree t without the node that names addresses and its
\* subtree: the name resolves no longer, and every node left keeps its name
\* and its children in their order
Detached(t, t2, r, names) ==
    LET d == Addressed(t, r, names).node
    IN  /\ Reach(t2, r) = Reach(t, r) \ Reach(t, d)
        /\ t2[t[d].parent].children = SelectSeq(t[t[d].parent].children, LAMBDA c : c # d)
        /\ \A n \in Reach(t2, r) \ {t[d].parent} : t2[n].children = t[n].children
        /\ \A n \in Reach(t2, r) : t2[n].name = t[n].name
        /\ get(t2, r, names).err = "KeyError"

\* C19: after a remove_assignment that returns, the addressed node and its
\* subtree are gone from the assignment tree and from every grade tree,
\* its qualified name resolves no longer, and every node left keeps its
\* place among its siblings and its raw grade text.
C19_RemoveDetaches ==
    \A names \in QNames :
        LET r == remove_assignment(GB, names)
        IN  r.err = "" =>
                /\ r.gb.root = root
                /\ r.gb.aliases = aliases
                /\ Detached(assignments, r.gb.assignments, root, names)
                /\ \A al \in DOMAIN grades :
                       /\ Detached(grades[al], r.gb.grades[al], root, names)
                       /\ \A n \in Reach(r.gb.grades[al], root) :
                              r.gb.grades[al][n].grade_str = grades[al][n].grade_str

\* the tree t with the children at the places i and j of node p exchanged
\* and nothing else changed
Exchanged(t, p, i, j) ==
    [t EXCEPT ![p].children =
        [k \in 1..Len(t[p].children) |->
            IF k = i THEN t[p].children[j]
            ELSE IF k = j THEN t[p].children[i]
            ELSE t[p].children[k]]]

\* the place of node d among the children of its parent
PlaceOf(t, d) == CHOOSE k \in 1..Len(t[t[d].parent].children) : t[t[d].parent].children[k] = d

\* the moves of the node names addresses in the tree t rooted at r
MovesExchange(t, r, names) ==
    LET d == Addressed(t, r, names).node
        up == move_node_up(t, r, names)
        down == move_node_down(t, r, names)
    IN  Addressed(t, r, names).err = "" =>
            /\ PlaceOf(t, d) > 1 =>
                   /\ up = [err |-> "", t |-> Exchanged(t, t[d].parent, PlaceOf(t, d) - 1, PlaceOf(t, d))]
                   /\ move_node_down(up.t, r, names) = [err |-> "", t |-> t]
            /\ PlaceOf(t, d) < Len(t[t[d].parent].children) =>
                   down = [err |-> "", t |-> Exchanged(t, t[d].parent, PlaceOf(t, d), PlaceOf(t, d) + 1)]

\* C20: move_node_up on a node with a sibling before it and move_node_down
\* on a node with a sibling after it exchange these two children of the
\* parent and change nothing else, in the assignment tree and in every
\* grade tree, and move_node_down after move_node_up gives back the tree
\* there was.
C20_MoveExchangesNeighbours ==
    \A names \in QNames :
        /\ MovesExchange(assignments, root, names)
        /\ \A al \in DOMAIN grades : MovesExchange(grades[al], root, names)

\* C20: move_assignment_up moved a node that had a sibling before it, in a
\* tree where the parent has a third child
C20_Witness ==
    /\ last = Call("move_assignment_up", "", "")
    /\ \E n \in Reach(assignments, root) : Len(assignments[n].children) >= 3

\* plain-number grade texts with the numbers they denote
PlainNumbers == {[text |-> T_10, val |-> Frac(10, 1)], [text |-> <<"5">>, val |-> Frac(5, 1)]}

\* C21: a plain-number grade text N set on a leaf is accepted only when the
\* bound assignment has a points weight, and then the grade is N divided by
\* these points; on an assignment with a percent or ratio weight the call
\* raises the parse error (ValueError).
C21_PlainNumberNeedsPoints ==
    \A al \in DOMAIN grades, names \in QNames, number \in PlainNumbers :
        LET n == get_grade(GB, al, names)
            r == gb_set_grade(GB, al, names, number.text)
        IN  (/\ n.err = ""
             /\ grades[al][n.node].children = <<>>
             /\ grades[al][n.node].grade_str # number.text) =>
                IF assignments[grades[al][n.node].assignment].weight_type = "points"
                THEN /\ r.err = ""
                     /\ r.gb.grades[al][n.node].percent_grade =
                            FDiv(number.val, assignments[grades[al][n.node].assignment].weight)
                ELSE r.err = "ValueError"

\* the children of n a policy considers: under PARTIAL those with has_grade
Considered(g, n, pol) ==
    SelectSeq(g[n].children, LAMBDA c : pol # "partial" \/ g[c].has_grade)

RECURSIVE WeightedSum(_, _, _, _)
\* the sum of percent_weight * aggregate over the children listed
WeightedSum(g, a, cs, pol) ==
    IF cs = <<>> THEN FZero
    ELSE FAdd(FMul(percent_weight(a, g[Head(cs)].assignment).val,
                   Aggregates(g, a, Head(cs))[pol].val),
              WeightedSum(g, a, Tail(cs), pol))

RECURSIVE WeightSum(_, _, _)
\* the sum of percent_weight over the children listed that are not extra
\* credit
WeightSum(g, a, cs) ==
    IF cs = <<>> THEN FZero
    ELSE IF a[g[Head(cs)].assignment].extra_credit THEN WeightSum(g, a, Tail(cs))
    ELSE FAdd(percent_weight(a, g[Head(cs)].assignment).val, WeightSum(g, a, Tail(cs)))

\* the aggregate of an internal node as the specification defines it
WeightedMean(g, a, n, pol) ==
    IF WeightSum(g, a, Considered(g, n, pol)) = FZero THEN FZero
    ELSE FDiv(WeightedSum(g, a, Considered(g, n, pol), pol),
              WeightSum(g, a, Considered(g, n, pol)))

\* C22: for every internal grade node and each policy, the aggregate read
\* is the sum over the considered children of percent_weight times the
\* child's aggregate, divided by the sum of percent_weight over the
\* considered children that are not extra credit, and 0 when that sum is 0.
C22_AggregateIsWeightedMean ==
    \A al \in DOMAIN grades : \A n \in Reach(grades[al], root) : \A pol \in Policies :
        grades[al][n].children # <<>> =>
            /\ Aggregates(grades[al], assignments, n)[pol].err = ""
            /\ \A i \in 1..Len(grades[al][n].children) :
                   Aggregates(grades[al], assignments, grades[al][n].children[i])[pol].val # None
            /\ Aggregates(grades[al], assignments, n)[pol].val =
                   WeightedMean(grades[al], assignments, n, pol)

\* the raw text of the node parses to a grade, not to the ungraded None
TextIsGrade(g, a, n) ==
    /\ _parse_grade_str(a, g[n], g[n].grade_str).err = ""
    /\ _parse_grade_str(a, g[n], g[n].grade_str).val # None

\* C23: in every reachable state has_grade of a leaf is true exactly when
\* its raw text parses to a grade, and has_grade of an internal node is the
\* disjunction of has_grade over its children.
C23_HasGradeFollowsTexts ==
    \A al \in DOMAIN grades : \A n \in Reach(grades[al], root) :
        IF grades[al][n].children = <<>>
        THEN grades[al][n].has_grade = TextIsGrade(grades[al], assignments, n)
        ELSE grades[al][n].has_grade =
                 (\E i \in 1..Len(grades[al][n].children) :
                      grades[al][grades[al][n].children[i]].has_grade)

(***************************************************************************)
(* The grade texts as a state machine: Init is a loaded gradebook and the  *)
(* one action is a call of set_grade with an unsigned pattern text behind  *)
(* no sign, a plus or a minus.                                             *)
(***************************************************************************)
\* unsigned grade texts of the none, percent, fraction and letter patterns,
\* each with the value the pattern table gives it
PatternTexts ==
    { [text |-> <<"n", "o", "n", "e">>, val |-> None],
      [text |-> <<"N", "O", "N", "E">>, val |-> None],
      [text |-> <<"2", "0", "%">>, val |-> Frac(20, 100)],
      [text |-> <<".", "5", "%">>, val |-> Frac(5, 1000)],
      [text |-> <<"1", "8", "/", "2", "0">>, val |-> Frac(18, 20)],
      [text |-> <<"/", "5">>, val |-> Frac(0, 5)],
      [text |-> <<"5", "/">>, val |-> Frac(5, 1)],
      [text |-> <<"F">>, val |-> Frac(180, 300)],
      [text |-> <<"A">>, val |-> Frac(300, 300)],
      [text |-> <<"B", "+", "/", "A", "-">>, val |-> Frac(270 + 285, 600)] }

Signs == {<<>>, <<"+">>, <<"-">>}

\* a run of the grade texts makes at most MaxGradeCalls calls of set_grade
MaxGradeCalls == 1

SetPatternGrade ==
    \E i \in 1..Len(aliases), names \in QNames, sign \in Signs, pattern \in PatternTexts :
        Returns("set_grade", gb_set_grade(GB, aliases[i], names, sign \o pattern.text),
                IF SameText(grades[aliases[i]], get_grade(GB, aliases[i], names),
                            sign \o pattern.text)
                THEN "same" ELSE "")

NextGrades ==
    /\ ops < MaxGradeCalls
    /\ SetPatternGrade

SpecGrades == Init /\ [][NextGrades]_vars

\* set_grade of the text on the leaf named sets the value as its grade
Graded(al, names, text, val) ==
    LET n == get_grade(GB, al, names)
        r == gb_set_grade(GB, al, names, text)
    IN  (/\ n.err = ""
         /\ grades[al][n.node].children = <<>>
         /\ grades[al][n.node].grade_str # text) =>
            /\ r.err = ""
            /\ r.gb.grades[al][n.node].percent_grade = val
            /\ r.gb.grades[al][n.node].has_grade = (val # None)

\* set_grade of the text on the leaf named raises the parse error
Rejected(al, names, text) ==
    LET n == get_grade(GB, al, names)
    IN  (/\ n.err = ""
         /\ grades[al][n.node].children = <<>>
         /\ grades[al][n.node].grade_str # text) =>
            gb_set_grade(GB, al, names, text).err = "ValueError"

\* the value of a pattern text behind a sign: 1 minus the value behind a
\* minus
SignedValue(sign, val) == IF sign = <<"-">> THEN FSub(FOne, val) ELSE val

\* C24: the grade of a leaf follows the pattern table whatever the weight
\* of its assignment: unsigned none in any case is the ungraded None, N% is
\* N/100, A/B is A over B with an empty numerator 0 and an empty
\* denominator 1, a letter or a pair of letters is the table fraction or the
\* mean of the two, and behind a minus the grade is 1 minus that value,
\* behind a plus the value itself.  The none pattern is tried before the
\* sign is stripped: a signed none is rejected with the parse error.
C24_GradeFollowsPatternTable ==
    \A al \in DOMAIN grades, names \in QNames, sign \in Signs, pattern \in PatternTexts :
        IF pattern.val # None THEN Graded(al, names, sign \o pattern.text,
                                          SignedValue(sign, pattern.val))
        ELSE IF sign = <<>> THEN Graded(al, names, pattern.text, None)
        ELSE Rejected(al, names, sign \o pattern.text)

\* a call of set_grade left -20% as the grade 4/5 on a leaf of a 10-point
\* assignment
C24_Witness ==
    /\ last = Call("set_grade", "", "")
    /\ \E al \in DOMAIN grades : \E n \in Reach(grades[al], root) :
           /\ grades[al][n].children = <<>>
           /\ assignments[grades[al][n].assignment].weight_type = "points"
           /\ assignments[grades[al][n].assignment].weight = Frac(10, 1)
           /\ grades[al][n].grade_str = <<"-", "2", "0", "%">>
           /\ grades[al][n].percent_grade = Frac(4, 5)

\* C24 as stated, with the sign stripped before every pattern: a signed
\* none is the ungraded None as well
C24_SignStrippedBeforeEveryPattern ==
    \A al \in DOMAIN grades, names \in QNames, sign \in Signs, pattern \in PatternTexts :
        Graded(al, names, sign \o pattern.text,
               IF pattern.val = None THEN None ELSE SignedValue(sign, pattern.val))

\* what can be read of the grade nodes of a gradebook: the aggregates, the
\* has_grade flags and the display and export strings
Readable(gb) ==
    [al \in DOMAIN gb.grades |->
        [m \in Reach(gb.grades[al], gb.root) |->
            [has_grade |-> gb.grades[al][m].has_grade,
             aggregates |-> Aggregates(gb.grades[al], gb.assignments, m),
             display_str |-> display_str(gb.grades[al], gb.assignments, m),
             export_str |-> export_str(gb.grades[al], gb.assignments, m)]]]

\* C25: the text passed to set_grade on an internal grade node influences
\* nothing that can be read afterwards: two calls with different texts
\* leave the same aggregates, has_grade flags, display and export strings
\* on every node, and so do they after a later remove_assignment, also
\* when it removes the last child of the node.
C25_InternalTextIsInert ==
    \A al \in DOMAIN grades, names \in QNames, text1 \in GradeTexts, text2 \in GradeTexts :
        LET n == get_grade(GB, al, names)
            r1 == gb_set_grade(GB, al, names, text1)
            r2 == gb_set_grade(GB, al, names, text2)
        IN  (/\ n.err = ""
             /\ grades[al][n.node].children # <<>>
             /\ grades[al][n.node].grade_str \notin {text1, text2}) =>
                /\ r1.err = r2.err
                /\ Readable(r1.gb) = Readable(r2.gb)
                /\ \A removed \in QNames :
                       Readable(remove_assignment(r1.gb, removed).gb) =
                           Readable(remove_assignment(r2.gb, removed).gb)

(***************************************************************************)
(* The assignment tree as a state machine: Init is the tree of a loaded    *)
(* gradebook, and each action is one call of a NamedNode operation on the  *)
(* root self.assignments.                                                  *)
(***************************************************************************)
\* the qualified names the tree operations are called with
TreeNames == QNames \cup {<<ROOT_NAME, "b", "a">>}

\* the tree operation op returned r = [err, t]
TreeReturns(op, r) ==
    /\ assignments' = r.t
    /\ last' = Call(op, r.err, "")
    /\ ops' = ops + 1
    /\ UNCHANGED <<file, root, aliases, students, grades, changed>>

\* add_descendant of the new node, once it is constructed
NewDescendant(t, names, id, new) ==
    IF new.err # "" THEN Refused(t, new.err)
    ELSE add_descendant(Extend(t, id, new.node), root, names, id)

AddDescendant ==
    \E names \in TreeNames :
        /\ Cardinality(DOMAIN assignments) < MaxNodes
        /\ TreeReturns("add_descendant",
                       NewDescendant(assignments, names, NewId(assignments),
                                     Assignment(Last(names), T_10, FALSE)))

MoveNode ==
    \E old_names \in TreeNames, new_names \in TreeNames :
        TreeReturns("move_node", move_node(assignments, root, old_names, new_names))

MoveNodeUp ==
    \E names \in TreeNames :
        TreeReturns("move_node_up", move_node_up(assignments, root, names))

MoveNodeDown ==
    \E names \in TreeNames :
        TreeReturns("move_node_down", move_node_down(assignments, root, names))

RemoveNode ==
    \E names \in TreeNames :
        TreeReturns("remove_node", remove_node(assignments, root, names))

NextTree ==
    /\ ops < MaxOps
    /\ \/ AddDescendant
       \/ MoveNode
       \/ MoveNodeUp
       \/ MoveNodeDown
       \/ RemoveNode

SpecTree == Init /\ [][NextTree]_vars

\* the number of leading indentation units of a heading
RECURSIVE Units(_)
Units(cell) ==
    IF Len(cell) >= 2 /\ cell[1] = "_" /\ cell[2] = "_" THEN 1 + Units(SubSeq(cell, 3, Len(cell)))
    ELSE 0

\* C26: every node reachable from the root of the assignment tree has the
\* depth of its parent plus 1, the root has depth 0, and the heading of
\* every node starts with as many indentation units as the node has
\* ancestors.
C26_DepthIsParentDepthPlusOne ==
    /\ assignments[root].depth = 0
    /\ \A n \in Reach(assignments, root) \ {root} :
           assignments[n].depth = assignments[assignments[n].parent].depth + 1
    /\ \A n \in Reach(assignments, root) :
           Units(to_heading(assignments, n)) = Len(qualified_name(assignments, n)) - 1

\* C27: in every reachable state the minimum, partial and maximum grade of
\* every grade node of every student can be read: the read raises nothing
\* and returns a rational number, not None.
C27_GradesAreReadable ==
    \A al \in DOMAIN grades : \A n \in Reach(grades[al], root) : \A pol \in Policies :
        /\ Aggregates(grades[al], assignments, n)[pol].err = ""
        /\ Aggregates(grades[al], assignments, n)[pol].val # None

\* weight texts the construction of an Assignment is tried with: points,
\* signed points, zero points and a percentage
TriedWeights == {T_10, <<"+", "1", "0">>, <<"-", "1", "0">>, T_0, T_50pct}

\* percent_weight of every assignment of the tree can be read
WeightsDefined(a, r) == \A n \in Reach(a, r) : percent_weight(a, n).err = ""

\* C28: percent_weight of every assignment of the tree is defined, and it
\* stays defined on every assignment after any add_assignment that returns:
\* a weight text the construction accepts never makes a later read of
\* percent_weight raise.
C28_AcceptedWeightsAreDefined ==
    /\ WeightsDefined(assignments, root)
    /\ \A names \in QNames, weight_str \in TriedWeights :
           LET r == add_assignment(GB, names, weight_str)
           IN  r.err = "" => WeightsDefined(r.gb.assignments, r.gb.root)

\* C29: letter_grade of the fraction a letter of the table parses to is
\* that letter, and a leaf graded with a letter of the table is projected
\* as that letter: letter_grade of its minimum, partial and maximum grade
\* is its grade text.
C29_LetterRoundTrip ==
    /\ \A i \in 1..Len(Letters) : letter_grade(LETTER_FRACTIONS(Letters[i])) = Letters[i]
    /\ \A al \in DOMAIN grades : \A n \in Reach(grades[al], root) : \A pol \in Policies :
           (/\ grades[al][n].children = <<>>
            /\ grades[al][n].grade_str \in Range(Letters)
            /\ grades[al][n].has_grade
            /\ grades[al][n].percent_grade = LETTER_FRACTIONS(grades[al][n].grade_str)) =>
               /\ Aggregates(grades[al], assignments, n)[pol].err = ""
               /\ letter_grade(Aggregates(grades[al], assignments, n)[pol].val) =
                      grades[al][n].grade_str

(***************************************************************************)
(* The web app (overunderapp.py) as a state machine: Init is the app after *)
(* configure_app, each action is one request to a route that reads or      *)
(* changes APP.config, and WriteOnExit is the atexit handler, after which  *)
(* nothing runs.  An exception in a route is answered with a server error  *)
(* and leaves what the route did before it.                                *)
(***************************************************************************)
\* self.display_str with the cache entries the read wrote: [err, val, g]
DisplayStr(g, a, n) ==
    IF g[n].children = <<>> THEN [err |-> "", val |-> g[n].grade_str, g |-> g]
    ELSE Exporting(g, n, _weighted_grade(g, a, n, "partial"))

\* the aggregates one round of the response loop reads: display_str of an
\* internal node, then the three of projection_str; as_color reads the
\* partial grade again
Reads(g, n) ==
    IF g[n].children = <<>> THEN <<"min", "partial", "max">>
    ELSE <<"partial", "min", "partial", "max">>

RECURSIVE ReadAll(_, _, _, _)
\* float(grade) of the aggregate read
AfterRead(a, n, pols, r) ==
    IF r.err # "" THEN [err |-> r.err, g |-> r.g]
    ELSE IF r.val = None THEN [err |-> "TypeError", g |-> r.g]
    ELSE ReadAll(r.g, a, n, pols)

ReadAll(g, a, n, pols) ==
    IF pols = <<>> THEN [err |-> "", g |-> g]
    ELSE AfterRead(a, n, Tail(pols), _weighted_grade(g, a, n, Head(pols)))

RECURSIVE Respond(_, _, _)
\* grade = grade.parent
Responded(a, n, r) ==
    IF r.err # "" \/ r.g[n].parent = 0 THEN r ELSE Respond(r.g, a, r.g[n].parent)

\* while grade is not None: result.append(...): [err, g]
Respond(g, a, n) == Responded(a, n, ReadAll(g, a, n, Reads(g, n)))

\* what a request to update_score leaves: the exception, the gradebook, the
\* flag and the branch taken
Scored(err, gb, flag, path) == [err |-> err, gb |-> gb, changed |-> flag, path |-> path]

\* grade.set_grade(data['value']); APP.config['changed'] = True; the loop
ScoreSet(gb, alias, n, flag, r) ==
    IF r.err # "" THEN Scored(r.err, GradeTree(gb, alias, r), flag, "")
    ELSE Scored(Respond(r.g, gb.assignments, n).err,
                GradeTree(gb, alias, Respond(r.g, gb.assignments, n)), TRUE, "set")

\* the comparison with display_str and the trial parse_fraction(value)
ScoreShown(gb, alias, n, value, flag, d) ==
    IF d.err # "" THEN Scored(d.err, GradeTree(gb, alias, d), flag, "")
    ELSE IF d.val = value THEN Scored("", GradeTree(gb, alias, d), flag, "same")
    ELSE IF parse_fraction(value, None, FALSE).err # ""
    THEN Scored(parse_fraction(value, None, FALSE).err, GradeTree(gb, alias, d), flag, "abort")
    ELSE ScoreSet(GradeTree(gb, alias, d), alias, n, flag,
                  set_grade(d.g, gb.assignments, n, value))

ScoreFound(gb, alias, value, flag, n) ==
    IF n.err # "" THEN Scored(n.err, gb, flag, "")
    ELSE ScoreShown(gb, alias, n.node, value, flag,
                    DisplayStr(gb.grades[alias], gb.assignments, n.node))

\* the route update_score, flag being APP.config['changed'] before it
update_score(gb, alias, names, value, flag) ==
    ScoreFound(gb, alias, value, flag, get_grade(gb, alias, names))

\* the route reload: APP.config['gradebook'] is replaced when the
\* constructor returns
Reloaded(gb, r) == [err |-> r.err, gb |-> IF r.err = "" THEN r.gb ELSE gb]

\* the app serves at most MaxRequests requests before it exits
MaxRequests == 2

\* the grades files the app is started on
AppFiles ==
    { [header |-> h,
       rows |-> <<[student |-> Students[1], cells |-> <<T_0pct, T_100pct, T_50pct>>],
                  [student |-> Students[2], cells |-> <<T_0pct, T_None, T_100pct>>]>>] :
        h \in { <<<<"r">> \o Paren(T_100pct), Under(<<"a">> \o Paren(T_10)),
                  Under(<<"b">> \o Paren(T_20))>>,
                <<<<"r">> \o Paren(T_100pct), Under(<<"a">> \o Paren(T_50pct)),
                  Under(Under(<<"b">> \o Paren(T_10)))>> } }

\* configure_app(filepath)
InitApp ==
    /\ file \in AppFiles
    /\ Opened(_read_csv(file))
    /\ last = Call("configure_app", "", "")
    /\ ops = 0
    /\ changed = FALSE

\* atexit has not run yet
Running == last.op # "write_on_exit"

RouteMoveUp ==
    \E names \in QNames : Returns("move_up", move_assignment_up(GB, names), "")

RouteMoveDown ==
    \E names \in QNames : Returns("move_down", move_assignment_down(GB, names), "")

RouteCreateChild ==
    \E names \in QNames, weight_str \in WeightTexts :
        /\ Cardinality(DOMAIN assignments) < MaxNodes
        /\ Returns("create_child", add_assignment(GB, names, Strip(weight_str)), "")

RouteDelete ==
    \E names \in QNames : Returns("delete", remove_assignment(GB, names), "")

\* the request to update_score left r
ScoreReturns(r) ==
    /\ Becomes(r.gb)
    /\ last' = Call("update_score", r.err, r.path)
    /\ changed' = r.changed

RouteUpdateScore ==
    \E i \in 1..Len(aliases), names \in QNames, value \in GradeTexts :
        ScoreReturns(update_score(GB, aliases[i], names, value, changed))

\* write_csv called by op returned r = [err, csv, gb]
Saved(op, r, path) ==
    /\ file' = r.csv
    /\ assignments' = r.gb.assignments
    /\ root' = r.gb.root
    /\ aliases' = r.gb.aliases
    /\ students' = r.gb.students
    /\ grades' = r.gb.grades
    /\ ops' = ops + 1
    /\ last' = Call(op, r.err, path)
    /\ changed' = changed

RouteSave == Saved("save", write_csv(GB), "")

RouteReload == Returns("reload", Reloaded(GB, _read_csv(file)), "")

\* write_on_exit: if APP.config['changed']: write_csv()
WriteOnExit ==
    IF changed THEN Saved("write_on_exit", write_csv(GB), "written")
    ELSE /\ last' = Call("write_on_exit", "", "skipped")
         /\ ops' = ops + 1
         /\ UNCHANGED <<file, assignments, root, aliases, students, grades, changed>>

NextApp ==
    /\ Running
    /\ \/ /\ ops < MaxRequests
          /\ \/ RouteMoveUp
             \/ RouteMoveDown
             \/ RouteCreateChild
             \/ RouteDelete
             \/ RouteUpdateScore
             \/ RouteSave
             \/ RouteReload
       \/ WriteOnExit

SpecApp == InitApp /\ [][NextApp]_vars

\* what a gradebook holds that a file keeps: the headings in traversal
\* order and, for every student, the texts of the leaves
Kept(gb) ==
    [header |-> [k \in 1..Len(traversal(gb.assignments, gb.root)) |->
                    to_heading(gb.assignments, traversal(gb.assignments, gb.root)[k])],
     texts |-> [al \in DOMAIN gb.grades |->
                   [n \in Leaves(gb.grades[al], gb.root) |-> gb.grades[al][n].grade_str]]]

\* the gradebook in memory differs from the one the file holds
Unsaved == _read_csv(file).err # "" \/ Kept(GB) # Kept(_read_csv(file).gb)

\* C30: whenever the gradebook in memory differs from the file, the changed
\* flag is set; write_on_exit writes exactly when the flag is set; and once
\* write_on_exit has returned, the file holds the gradebook in memory.
C30_WrittenOnExitIffUnsaved ==
    /\ Unsaved => changed
    /\ last.op = "write_on_exit" => (last.path = "written" <=> changed)
    /\ (last.op = "write_on_exit" /\ last.err = "") => ~Unsaved

====
